---- MODULE Spec2Model ----
(***************************************************************************)
(* A model of one paseo-core actor cell: the Durable Object ActorDO with   *)
(* its two store handlers, the generic store (src/handlers/store.ts,       *)
(* tables items / output_index) and the responses store                    *)
(* (src/handlers/responsesStore.ts, tables responses / response_outputs).  *)
(*                                                                         *)
(* JSON values are tagged records, the Zod validators are schema trees     *)
(* interpreted by SafeParse, the SQL tables are sequences and sets of rows *)
(* and every request handler is one action.  The Worker in front of the    *)
(* cells, with its two routers (env.ACTOR_DO and env.PASEO_POD), follows   *)
(* the cell.                                                               *)
(***************************************************************************)
EXTENDS Integers, Sequences, FiniteSets, TLC

(***************************************************************************)
(* JSON values.                                                            *)
(***************************************************************************)
Str(s)  == [t |-> "string", s |-> s]
Num(n)  == [t |-> "number", n |-> n]
Null    == [t |-> "null"]
Arr(a)  == [t |-> "array", a |-> a]
Obj(o)  == [t |-> "object", o |-> o]
\* JavaScript's undefined: a missing key, the result of a failed lookup.
UNDEF   == [t |-> "undefined"]
\* SQL NULL and an absent query parameter.
NULL    == "<null>"
EmptyObj == Obj(<<>>)

\* JavaScript truthiness, as used by `x || null` and `if (x)`.
Truthy(v) ==
    CASE v.t = "undefined" -> FALSE
      [] v.t = "null"      -> FALSE
      [] v.t = "string"    -> v.s # ""
      [] v.t = "number"    -> v.n # 0
      [] OTHER             -> TRUE

\* v == null in JavaScript: null or undefined.
IsNullish(v) == v.t \in {"null", "undefined"}

\* String(v) for the values the model stores in index columns.
JsString(v) ==
    CASE v.t = "string" -> v.s
      [] v.t = "number" -> ToString(v.n)
      [] v.t = "object" -> "[object Object]"
      [] v.t = "array"  -> "<array>"
      [] OTHER          -> v.t

\* obj[k] for a JSON value: undefined unless obj is an object holding k.
Prop(v, k) ==
    IF v.t = "object" /\ k \in DOMAIN v.o THEN v.o[k] ELSE UNDEF

(***************************************************************************)
(* Strings as the code handles them, character by character.               *)
(***************************************************************************)
Chr(s, i) == SubSeq(s, i, i)

AlnumChars ==
    { "a","b","c","d","e","f","g","h","i","j","k","l","m","n","o","p","q",
      "r","s","t","u","v","w","x","y","z",
      "A","B","C","D","E","F","G","H","I","J","K","L","M","N","O","P","Q",
      "R","S","T","U","V","W","X","Y","Z",
      "0","1","2","3","4","5","6","7","8","9" }

\* p.replace(/[^a-zA-Z0-9]+/g, "_"): every maximal run of other characters
\* becomes one "_".
RECURSIVE ReplaceRuns(_, _, _)
ReplaceRuns(p, i, inRun) ==
    IF i > Len(p) THEN ""
    ELSE IF Chr(p, i) \in AlnumChars
         THEN Chr(p, i) \o ReplaceRuns(p, i + 1, FALSE)
         ELSE (IF inRun THEN "" ELSE "_") \o ReplaceRuns(p, i + 1, TRUE)

\* The column-name length kept by colName's slice(0, 48).
ColNameMax == 48

Slice(s, n) == IF Len(s) > n THEN SubSeq(s, 1, n) ELSE s

\* The column name without slice(0, 48).
colNameWhole(p) == "k_" \o ReplaceRuns(p, 1, FALSE)

\* colName: "a.b.c" -> "k_a_b_c".
colName(p) == "k_" \o Slice(ReplaceRuns(p, 1, FALSE), ColNameMax)

\* path.split("."): the segments between the dots.
RECURSIVE SplitDots(_, _, _)
SplitDots(p, i, cur) ==
    IF i > Len(p) THEN <<cur>>
    ELSE IF Chr(p, i) = "."
         THEN <<cur>> \o SplitDots(p, i + 1, "")
         ELSE SplitDots(p, i + 1, cur \o Chr(p, i))

RECURSIVE ReducePath(_, _, _)
ReducePath(o, ks, i) ==
    IF i > Len(ks) THEN o
    ELSE ReducePath(IF Truthy(o) /\ o.t = "object" THEN Prop(o, ks[i]) ELSE UNDEF,
                    ks, i + 1)

\* getPath: walk the dotted path; undefined as soon as a step is not an
\* object (array elements are not addressed by the paths of the model).
getPath(obj, path) == ReducePath(obj, SplitDots(path, 1, ""), 1)

StartsWith(s, pre) == Len(s) >= Len(pre) /\ SubSeq(s, 1, Len(pre)) = pre

(***************************************************************************)
(* Zod schemas as trees, and safeParse as their interpreter.               *)
(***************************************************************************)
ZAny          == [z |-> "any"]
ZString       == [z |-> "string"]
ZNumber       == [z |-> "number"]
ZBoolean      == [z |-> "boolean"]
ZNull         == [z |-> "null"]
ZRecord       == [z |-> "record"]
ZEnum(vs)     == [z |-> "enum", values |-> vs]
ZLiteral(s)   == [z |-> "literal", value |-> s]
ZArray(e)     == [z |-> "array", element |-> e]
ZUnion(os)    == [z |-> "union", options |-> os]
ZOptional(i)  == [z |-> "optional", inner |-> i]
ZNullable(i)  == [z |-> "nullable", inner |-> i]
\* z.object(shape): keys outside the shape are stripped from the output.
ZObject(sh)   == [z |-> "object", shape |-> sh, catchall |-> FALSE]
\* z.object(shape).catchall(z.any()): keys outside the shape are kept.
ZCatchall(sh) == [z |-> "object", shape |-> sh, catchall |-> TRUE]

SubPath(path, k) == IF path = "" THEN k ELSE path \o "." \o k

Accept(v)           == [data |-> v, issues |-> {}]
Reject(path, msg)   == [data |-> UNDEF, issues |-> {[path |-> path, message |-> msg]}]
TypeIssue(v, want)  ==
    IF v.t = "undefined" THEN "Required"
    ELSE "Expected " \o want \o ", received " \o v.t

\* schema.safeParse(v): the parsed data and the issues, one per failing path.
RECURSIVE Parse(_, _, _)
Parse(s, v, path) ==
    CASE s.z \in {"any"} -> Accept(v)
      [] s.z = "optional" ->
            IF v.t = "undefined" THEN Accept(UNDEF) ELSE Parse(s.inner, v, path)
      [] s.z = "nullable" ->
            IF v.t = "null" THEN Accept(Null) ELSE Parse(s.inner, v, path)
      [] s.z \in {"string", "number", "boolean", "null"} ->
            IF v.t = s.z THEN Accept(v) ELSE Reject(path, TypeIssue(v, s.z))
      [] s.z = "enum" ->
            IF v.t = "string" /\ v.s \in s.values THEN Accept(v)
            ELSE Reject(path, IF v.t = "string" THEN "Invalid enum value"
                              ELSE TypeIssue(v, "string"))
      [] s.z = "literal" ->
            IF v.t = "string" /\ v.s = s.value THEN Accept(v)
            ELSE Reject(path, "Invalid literal value")
      [] s.z = "record" ->
            IF v.t = "object" THEN Accept(v) ELSE Reject(path, TypeIssue(v, "object"))
      [] s.z = "union" ->
            LET ok == {i \in 1..Len(s.options) :
                          Parse(s.options[i], v, path).issues = {}}
            IN  IF ok = {} THEN Reject(path, "Invalid input")
                ELSE Parse(s.options[CHOOSE i \in ok : \A j \in ok : i <= j], v, path)
      [] s.z = "array" ->
            IF v.t # "array" THEN Reject(path, TypeIssue(v, "array"))
            ELSE LET r == [i \in 1..Len(v.a) |->
                              Parse(s.element, v.a[i], SubPath(path, ToString(i - 1)))]
                 IN  [data   |-> Arr([i \in 1..Len(v.a) |-> r[i].data]),
                      issues |-> UNION {r[i].issues : i \in 1..Len(v.a)}]
      [] s.z = "object" ->
            IF v.t # "object" THEN Reject(path, TypeIssue(v, "object"))
            ELSE LET r    == [k \in DOMAIN s.shape |->
                                 Parse(s.shape[k], Prop(v, k), SubPath(path, k))]
                     keep == {k \in DOMAIN s.shape : r[k].data.t # "undefined"}
                     rest == IF s.catchall THEN DOMAIN v.o \ DOMAIN s.shape ELSE {}
                 IN  [data   |-> Obj([k \in keep \cup rest |->
                                         IF k \in keep THEN r[k].data ELSE v.o[k]]),
                      issues |-> UNION {r[k].issues : k \in DOMAIN s.shape}]

safeParse(schema, v) ==
    LET r == Parse(schema, v, "")
    IN  [success |-> r.issues = {}, data |-> r.data, issues |-> r.issues]

\* JSON.parse(JSON.stringify(v)): keys holding undefined are dropped, the
\* rest is kept as it is.
RECURSIVE JsonRoundTrip(_)
JsonRoundTrip(v) ==
    CASE v.t = "object" ->
            Obj([k \in {j \in DOMAIN v.o : v.o[j].t # "undefined"} |->
                    JsonRoundTrip(v.o[k])])
      [] v.t = "array" ->
            Arr([i \in 1..Len(v.a) |->
                    IF v.a[i].t = "undefined" THEN Null ELSE JsonRoundTrip(v.a[i])])
      [] OTHER -> v

\* jsonSchemaToZod: the validator compiled from a cell's JSON Schema.
RECURSIVE jsonSchemaToZod(_)
jsonSchemaToZod(schema) ==
    LET type == Prop(schema, "type")
        has(k) == Truthy(Prop(schema, k))
    IN  CASE type = Str("object") ->
               LET properties == IF has("properties") THEN schema.o.properties.o ELSE <<>>
                   required   == IF has("required")
                                 THEN {schema.o.required.a[i].s :
                                          i \in 1..Len(schema.o.required.a)}
                                 ELSE {}
               IN  ZObject([k \in DOMAIN properties |->
                               IF k \in required
                               THEN jsonSchemaToZod(properties[k])
                               ELSE ZOptional(jsonSchemaToZod(properties[k]))])
          [] type = Str("string") ->
               IF has("enum")
               THEN ZEnum({schema.o.enum.a[i].s : i \in 1..Len(schema.o.enum.a)})
               ELSE ZString
          [] type \in {Str("number"), Str("integer")} -> ZNumber
          [] type = Str("boolean") -> ZBoolean
          [] type = Str("array") ->
               ZArray(jsonSchemaToZod(IF has("items") THEN schema.o.items ELSE EmptyObj))
          [] type = Str("null") -> ZNull
          [] OTHER -> ZAny

\* createResponsesZodSchema: the fixed validator of the responses store.
OutputItemSchema ==
    ZCatchall([
        type          |-> ZOptional(ZString),
        id            |-> ZOptional(ZString),
        status        |-> ZOptional(ZString),
        role          |-> ZOptional(ZEnum({"assistant", "user", "system", "function"})),
        content       |-> ZOptional(ZUnion(<<
                              ZString,
                              ZArray(ZCatchall([
                                  type        |-> ZOptional(ZString),
                                  text        |-> ZOptional(ZString),
                                  annotations |-> ZOptional(ZArray(ZAny))]))>>)),
        text          |-> ZOptional(ZString),
        function_call |-> ZOptional(ZAny),
        tool_calls    |-> ZOptional(ZArray(ZAny))])

createResponsesZodSchema ==
    ZCatchall([
        id                   |-> ZString,
        object               |-> ZLiteral("response"),
        created_at           |-> ZNumber,
        status               |-> ZEnum({"completed", "incomplete", "failed"}),
        error                |-> ZOptional(ZNullable(ZAny)),
        incomplete_details   |-> ZOptional(ZNullable(ZAny)),
        instructions         |-> ZOptional(ZNullable(ZString)),
        max_output_tokens    |-> ZOptional(ZNullable(ZNumber)),
        model                |-> ZString,
        output               |-> ZArray(OutputItemSchema),
        parallel_tool_calls  |-> ZOptional(ZBoolean),
        previous_response_id |-> ZOptional(ZNullable(ZString)),
        reasoning            |-> ZOptional(ZObject([
                                     effort  |-> ZOptional(ZNullable(ZString)),
                                     summary |-> ZOptional(ZNullable(ZString))])),
        store                |-> ZOptional(ZBoolean),
        temperature          |-> ZOptional(ZNumber),
        text                 |-> ZOptional(ZObject([
                                     format |-> ZOptional(ZObject([
                                         type |-> ZOptional(ZEnum({"text", "json"}))]))])),
        tool_choice          |-> ZOptional(ZUnion(<<ZEnum({"auto", "none"}),
                                                    ZCatchall(<<>>)>>)),
        tools                |-> ZOptional(ZArray(ZAny)),
        top_p                |-> ZOptional(ZNumber),
        truncation           |-> ZOptional(ZEnum({"enabled", "disabled"})),
        usage                |-> ZOptional(ZObject([
                                     input_tokens          |-> ZOptional(ZNumber),
                                     input_tokens_details  |-> ZOptional(ZObject([
                                         cached_tokens |-> ZOptional(ZNumber)])),
                                     output_tokens         |-> ZOptional(ZNumber),
                                     output_tokens_details |-> ZOptional(ZObject([
                                         reasoning_tokens |-> ZOptional(ZNumber)])),
                                     total_tokens          |-> ZOptional(ZNumber)])),
        user                 |-> ZOptional(ZNullable(ZString)),
        metadata             |-> ZOptional(ZRecord)])


(***************************************************************************)
(* Bounds and the inputs the requests are drawn from.                      *)
(***************************************************************************)
\* The most rows the document table holds in the model.
MaxDocs == 2

\* crypto.randomUUID(): any identifier not in use; "u1", "u2", ... stand for
\* the UUID strings, ordered as SQLite orders TEXT.
Uuid(i) == "u" \o ToString(i)
Uuids   == {Uuid(i) : i \in 1..MaxDocs}

\* Caller-supplied identifiers of documents (the id field of a response).
ExtIds == {"r1", "r2"}

\* Every identifier of the model in ascending TEXT order.
IdOrder == <<"r1", "r2">> \o [i \in 1..MaxDocs |-> Uuid(i)]
IdRank(x) == CHOOSE i \in 1..Len(IdOrder) : IdOrder[i] = x
IdLess(a, b) == IdRank(a) < IdRank(b)

\* The index paths of the model in the order of Array.prototype.sort
\* ("." sorts before "_").
\* A text of n characters.
RECURSIVE Text(_)
Text(n) == IF n = 0 THEN ""
           ELSE IF n % 2 = 0 THEN LET half == Text(n \div 2) IN half \o half
           ELSE Text(n - 1) \o "a"

\* Paths around the column-name length: two of 49 characters that differ
\* after the 48th, one that differs at the 48th, and two whose separators
\* bring the difference to the 49th normalized character.
DotsX  == Text(46) \o "..x"
DotXQ  == Text(46) \o ".xq"
LongXY == Text(47) \o "xy"
LongXZ == Text(47) \o "xz"
LongYY == Text(47) \o "yy"

ColumnPaths ==
    {DotsX, DotXQ, LongXY, LongXZ, LongYY, "output..role", "output.role",
     "output_role", "status"}

\* The paths of the model in code-unit order.
PathOrder == <<DotsX, DotXQ, LongXY, LongXZ, LongYY, "output..role",
               "output.role", "output_role", "status">>
PathRank(p) == CHOOSE i \in 1..Len(PathOrder) : PathOrder[i] = p

\* (cfg.indexes ?? []).sort(): insertion sort by code-unit order.
RECURSIVE InsertSorted(_, _)
InsertSorted(sorted, p) ==
    IF sorted = <<>> THEN <<p>>
    ELSE IF PathRank(p) < PathRank(Head(sorted))
         THEN <<p>> \o sorted
         ELSE <<Head(sorted)>> \o InsertSorted(Tail(sorted), p)

RECURSIVE SortPaths(_)
SortPaths(ps) ==
    IF ps = <<>> THEN <<>>
    ELSE InsertSorted(SortPaths(SubSeq(ps, 1, Len(ps) - 1)), ps[Len(ps)])

\* The index lists a seed request may carry.
IndexLists ==
    { <<>>,
      <<"status">>,
      <<"status", "output.role">>,
      <<"status", "status">>,
      <<"output.role", "output_role">> }

\* The default schema of ActorDO.init, { type: "object" }.
SchemaDefault == Obj([type |-> Str("object")])

JString == Obj([type |-> Str("string")])
JNumber == Obj([type |-> Str("number")])

\* A JSON Schema describing the documents of the model.
SchemaDoc ==
    Obj([type       |-> Str("object"),
         required   |-> Arr(<<Str("id")>>),
         properties |-> Obj([
             id     |-> JString,
             status |-> JString,
             usage  |-> Obj([type       |-> Str("object"),
                             properties |-> Obj([total_tokens |-> JNumber])]),
             output |-> Obj([type  |-> Str("array"),
                             items |-> Obj([type       |-> Str("object"),
                                            properties |-> Obj([
                                                type    |-> JString,
                                                role    |-> JString,
                                                status  |-> JString,
                                                content |-> JString,
                                                text    |-> JString])])])])])

\* A schema without a type: jsonSchemaToZod falls back to z.any().
SchemaAny == EmptyObj

Schemas == {SchemaDefault, SchemaDoc, SchemaAny}

With(obj, k, v) ==
    Obj([x \in DOMAIN obj.o \cup {k} |-> IF x = k THEN v ELSE obj.o[x]])

RespDoc(id, status, output) ==
    Obj([id         |-> Str(id),
         object     |-> Str("response"),
         created_at |-> Num(1),
         status     |-> Str(status),
         model      |-> Str("gpt"),
         output     |-> Arr(output)])

ElemAssistant == Obj([type |-> Str("message"), role |-> Str("assistant"),
                      content |-> Str("hi")])
ElemUser      == Obj([role |-> Str("user"), status |-> Str("done"),
                      text |-> Str("x")])

DocTwo      == RespDoc("r1", "completed", <<ElemAssistant, ElemUser>>)
DocNone     == RespDoc("r1", "failed", <<>>)
DocZeroTok  == With(RespDoc("r2", "completed", <<ElemAssistant>>), "usage",
                    Obj([total_tokens |-> Num(0)]))
DocTwoTok   == With(RespDoc("r2", "failed", <<ElemUser>>), "usage",
                    Obj([total_tokens |-> Num(2), prompt_tokens |-> Num(1)]))
\* The document of the example scenario.
DocScenario ==
    Obj([id     |-> Str("r1"),
         status |-> Str("completed"),
         output |-> Arr(<<Obj([role |-> Str("assistant"), text |-> Str("hi")]),
                          Obj([role |-> Str("tool"), text |-> Str("x")])>>)])
DocBadStatus == Obj([status |-> Num(1)])

ElemContent(text) == Obj([type |-> Str("message"), role |-> Str("assistant"),
                          content |-> Str(text)])
ElemParts(a, b)   == Obj([type    |-> Str("message"),
                          content |-> Arr(<<Obj([type |-> Str("output_text"), text |-> Str(a)]),
                                            Obj([type |-> Str("image")]),
                                            Obj([type |-> Str("text"), text |-> Str(b)])>>)])

\* Request bodies whose elements have texts around the maximum excerpt
\* length: 1001 and 1000 characters, 5, none, parts of 999 + 1 + 2, and a
\* text field of 1002.
ExcerptDocs ==
    { RespDoc("r1", "completed", <<ElemContent(Text(1001))>>),
      RespDoc("r2", "completed", <<ElemContent(Text(1000)), ElemContent(Text(5)),
                                   ElemContent("")>>),
      RespDoc("r1", "failed", <<ElemParts(Text(999), "bc")>>),
      RespDoc("r2", "failed", <<Obj([role |-> Str("user"), text |-> Str(Text(1002))])>>) }

\* Request bodies for the extraction of output.<subPath>: elements with the
\* value, with null, without it, with a number, and an element that is no
\* object; an output that is a string, an object, or absent.
DocMixed ==
    Obj([id     |-> Str("r1"),
         output |-> Arr(<<Obj([role |-> Str("user")]),
                          Obj([role |-> Null]),
                          Obj([type |-> Str("message")]),
                          Obj([role |-> Num(1)]),
                          Str("assistant"),
                          Obj([role |-> Str("assistant")])>>)])
DocOutputText   == Obj([id |-> Str("r2"), output |-> Str("assistant")])
DocOutputObject == Obj([id |-> Str("r1"), output |-> Obj([role |-> Str("assistant")])])
DocNoOutput     == Obj([id |-> Str("r2"), status |-> Str("completed")])

ExtractDocs == {DocMixed, DocOutputText, DocOutputObject, DocNoOutput, DocTwo}

\* The request bodies of the model; Null is a body req.json() could not parse.
DocInputs ==
    {DocTwo, DocNone, DocZeroTok, DocTwoTok, DocScenario, DocBadStatus, Null}

(***************************************************************************)
(* The state of one cell.                                                  *)
(***************************************************************************)
VARIABLES
    cfg,            \* ActorDO.cfg, also stored under the key "cfg"
    storedIndexes,  \* actor_meta row 'indexes': the index baseline
    items,          \* table items (responses): exists, cols, rows in rowid order
    output_index,   \* table output_index (response_outputs): exists, rows
    req,            \* the request handled last
    resp,           \* its response
    awaiting,       \* the ingest suspended at `await req.json()`, if any
    handler         \* ActorDO.handler: the actor type whose factory built it

\* The Worker in front of the cells: its Durable Object namespaces and the
\* request it routed last.
VARIABLES
    ACTOR_DO,       \* env.ACTOR_DO: the cell behind every actor key
    PASEO_POD,      \* env.PASEO_POD: the storage behind every pod name
    issued,         \* the pod names POST /pods has returned
    wreq,           \* the request the Worker handled last
    wresp           \* its response

cellVars   == <<cfg, storedIndexes, items, output_index, req, resp, awaiting,
               handler>>
workerVars == <<ACTOR_DO, PASEO_POD, issued, wreq, wresp>>

vars == <<cfg, storedIndexes, items, output_index, req, resp, awaiting,
          handler, ACTOR_DO, PASEO_POD, issued, wreq, wresp>>

NoTable  == [exists |-> FALSE, cols |-> {}, rows |-> <<>>]
NoOutTab == [exists |-> FALSE, rows |-> {}]

Range(f) == {f[i] : i \in DOMAIN f}

(***************************************************************************)
(* ensureSchema and the seeding of a cell.                                 *)
(***************************************************************************)
ActorTypes == {"store", "responsesStore"}

\* An ensureSchema that drops the document table alone on a changed index
\* list and leaves the array-index table and its rows in place.
ensureSchemaKeepsOutputs(c) ==
    LET currentIndexes == SortPaths(c.indexes)
        changed     == storedIndexes # currentIndexes
        items0      == IF changed THEN NoTable ELSE items
        idxCols     == [i \in 1..Len(currentIndexes) |-> colName(currentIndexes[i])]
        duplicate   == \E i, j \in 1..Len(idxCols) : i # j /\ idxCols[i] = idxCols[j]
        createFails == ~items0.exists /\ duplicate
    IN  [ok            |-> ~createFails,
         storedIndexes |-> currentIndexes,
         items         |-> IF items0.exists \/ createFails THEN items0
                           ELSE [exists |-> TRUE, cols |-> Range(idxCols), rows |-> <<>>],
         output_index  |-> output_index]

\* Handler.ensureSchema: compare the sorted index list with the baseline,
\* drop both tables when it differs, then CREATE TABLE IF NOT EXISTS.  Two
\* index paths with one column name make CREATE TABLE fail ("duplicate
\* column name"), after the drop and the new baseline.
ensureSchema(c) ==
    LET currentIndexes == SortPaths(c.indexes)
        changed     == storedIndexes # currentIndexes
        items0      == IF changed THEN NoTable ELSE items
        out0        == IF changed THEN NoOutTab ELSE output_index
        idxCols     == [i \in 1..Len(currentIndexes) |-> colName(currentIndexes[i])]
        duplicate   == \E i, j \in 1..Len(idxCols) : i # j /\ idxCols[i] = idxCols[j]
        createFails == ~items0.exists /\ duplicate
    IN  [ok            |-> ~createFails,
         storedIndexes |-> currentIndexes,
         items         |-> IF items0.exists \/ createFails THEN items0
                           ELSE [exists |-> TRUE, cols |-> Range(idxCols), rows |-> <<>>],
         output_index  |-> IF out0.exists \/ createFails THEN out0
                           ELSE [exists |-> TRUE, rows |-> {}]]

\* The parts of a configuration a seed request may carry.
SeedInputs ==
    {[indexes |-> l] : l \in IndexLists} \cup {[schema |-> sc] : sc \in Schemas}

\* cfg.params is absent until a seed carries it.
NoParams == <<>>

\* Seeds that configure the maximum excerpt length, or take it away.
ParamSeeds ==
    {[params |-> [max_output_content_length |-> n]] : n \in {0, 4}}
        \cup {[params |-> NoParams]}

\* { ...this.cfg, ...incoming }
MergeCfg(c, incoming) ==
    [k \in DOMAIN c |-> IF k \in DOMAIN incoming THEN incoming[k] ELSE c[k]]

NoReq ==
    [op |-> "none", doc |-> UNDEF, id |-> NULL, query |-> <<>>, seed |-> <<>>]

NoResp ==
    [status |-> 0, error |-> "", details |-> {}, id |-> NULL,
     outputs_indexed |-> UNDEF, records |-> <<>>, next_after |-> NULL,
     body |-> UNDEF]

\* No ingest is suspended.
NoAwait == [op |-> "none", cfg |-> <<>>]

Ok200     == [NoResp EXCEPT !.status = 200]
Thrown500 == [NoResp EXCEPT !.status = 500, !.error = "exception"]

\* this.handler of an instance whose init has thrown.
NoHandler == "none"

\* ActorDO.fetch, POST .../__seed: merge and store the configuration, build
\* the handler, run ensureSchema (which sorts cfg.indexes in place).  For a
\* key the registry does not hold, factory is undefined and the call
\* factory(this.cfg) throws after the configuration was stored.
Seed(incoming) ==
    LET c == MergeCfg(cfg, incoming)
        r == ensureSchema(c)
    IN  /\ handler # NoHandler
        /\ req' = [NoReq EXCEPT !.op = "seed", !.seed = incoming]
        /\ IF c.actorType \in ActorTypes
           THEN /\ cfg' = [c EXCEPT !.indexes = SortPaths(c.indexes)]
                /\ handler' = c.actorType
                /\ storedIndexes' = r.storedIndexes
                /\ items' = r.items
                /\ output_index' = r.output_index
                /\ resp' = IF r.ok THEN Ok200 ELSE Thrown500
           ELSE /\ cfg' = c
                /\ resp' = Thrown500
                /\ UNCHANGED <<handler, storedIndexes, items, output_index>>
        /\ UNCHANGED <<awaiting, ACTOR_DO, PASEO_POD, issued, wreq, wresp>>

\* ActorDO.fetch in an instance without a handler: init runs again and
\* throws "unknown actor type" before the request is looked at.
InitThrows ==
    /\ handler = NoHandler
    /\ req' = [NoReq EXCEPT !.op = "init"]
    /\ resp' = Thrown500
    /\ UNCHANGED <<cfg, storedIndexes, items, output_index, awaiting, handler>>
    /\ UNCHANGED <<ACTOR_DO, PASEO_POD, issued, wreq, wresp>>

(***************************************************************************)
(* The Worker's namespaces.  A Durable Object exists under every name: it  *)
(* is constructed, with empty storage, by the first request that reaches   *)
(* it.  Behind the router a cell is reduced to its index list and the      *)
(* bodies it stores; a pod is its key-value storage.                       *)
(***************************************************************************)
\* crypto.randomUUID() of the two routers.
PodUuids   == {"p1", "p2"}
ActorUuids == {"a2"}

\* The path segments a caller may write: parts[1] and parts[3].
PodNames == {"p1", "p1:a1"}
ActorIds == {"a2", "a1:a2"}

\* const actorKey = `${podName}:${actorId}`
actorKey(podName, actorId) == podName \o ":" \o actorId

Pairs     == PodNames \X (ActorIds \cup ActorUuids)
ActorKeys == {actorKey(pair[1], pair[2]) : pair \in Pairs}

MaxCellDocs == 2
CellDocs    == {"d1", "d2"}
CellIndexes == {<<>>, <<"status">>}

NewCell == [indexes |-> <<>>, docs |-> <<>>]

PodKeys   == {"k1", "k2"}
PodValues == {"v1", "v2"}

NoWReq  == [worker |-> "", route |-> "none", podName |-> "", actorId |-> "", sub |-> "",
            indexes |-> <<>>, doc |-> "", key |-> "", value |-> ""]
NoWResp == [status |-> 0, text |-> "", name |-> "", actorId |-> "",
            records |-> <<>>, value |-> ""]

WorkerInit ==
    /\ ACTOR_DO = [key \in ActorKeys |-> NewCell]
    /\ PASEO_POD = [name \in PodUuids \cup PodNames |-> <<>>]
    /\ issued = {}
    /\ wreq = NoWReq
    /\ wresp = NoWResp

\* A cell as POST /pods/{podName}/actors leaves it: created by the router,
\* initialised with the default configuration and seeded with its type.
Init ==
    /\ WorkerInit
    /\ awaiting = NoAwait
    /\ cfg \in {[actorType |-> a, indexes |-> <<>>, schema |-> SchemaDefault,
                 params |-> NoParams] :
                   a \in ActorTypes}
    /\ handler = cfg.actorType
    /\ storedIndexes = <<>>
    /\ items = [exists |-> TRUE, cols |-> {}, rows |-> <<>>]
    /\ output_index = [exists |-> TRUE, rows |-> {}]
    /\ req = [NoReq EXCEPT !.op = "seed"]
    /\ resp = Ok200

(***************************************************************************)
(* Ingestion: POST .../items and POST .../responses.                       *)
(***************************************************************************)
IsResponses == handler = "responsesStore"

\* The validator a handler factory builds from a configuration.
zodSchemaOf(actorType, schema) ==
    IF actorType = "responsesStore" THEN createResponsesZodSchema
    ELSE jsonSchemaToZod(schema)

\* zodSchema.safeParse(doc) for every validator and request body of the
\* model, computed once.
Validation ==
    [a \in ActorTypes |-> [sc \in Schemas |-> [d \in DocInputs \cup ExcerptDocs \cup ExtractDocs |->
        safeParse(zodSchemaOf(a, sc), d)]]]

DefaultContentLength == 1000

\* maxContentLength: cfg.params?.max_output_content_length ?? 1000, and the
\* fixed 1000 of the generic store.
maxContentLength ==
    IF IsResponses /\ "max_output_content_length" \in DOMAIN cfg.params
    THEN cfg.params.max_output_content_length
    ELSE DefaultContentLength

RECURSIVE Join(_, _)
Join(strs, sep) ==
    IF strs = <<>> THEN ""
    ELSE IF Len(strs) = 1 THEN strs[1]
    ELSE strs[1] \o sep \o Join(Tail(strs), sep)

\* The extraction without the test value != null.
extractOutputValuesAll(doc, path) ==
    IF StartsWith(path, "output.")
    THEN LET outputArray == Prop(doc, "output")
             subPath     == SubSeq(path, 8, Len(path))
         IN  IF outputArray.t = "array"
             THEN [i \in 1..Len(outputArray.a) |->
                      JsString(getPath(outputArray.a[i], subPath))]
             ELSE <<>>
    ELSE <<JsString(getPath(doc, path))>>

\* extractOutputValues: one string per element of doc.output that has a
\* value at the sub-path; for other paths the value at the path, if any.
extractOutputValues(doc, path) ==
    IF StartsWith(path, "output.")
    THEN LET outputArray == Prop(doc, "output")
             subPath     == SubSeq(path, 8, Len(path))
             Has(e)      == ~IsNullish(getPath(e, subPath))
         IN  IF outputArray.t = "array"
             THEN LET sel == SelectSeq(outputArray.a, Has)
                  IN  [i \in 1..Len(sel) |-> JsString(getPath(sel[i], subPath))]
             ELSE <<>>
    ELSE LET value == getPath(doc, path)
         IN  IF IsNullish(value) THEN <<>> ELSE <<JsString(value)>>

\* The value stored in the index column of path p.
IndexValue(validatedDoc, p) ==
    IF StartsWith(p, "output.")
    THEN LET extractedValues == extractOutputValues(validatedDoc, p)
         IN  IF Len(extractedValues) > 0 THEN Str(Join(extractedValues, "|")) ELSE Null
    ELSE LET v == getPath(validatedDoc, p)
         IN  IF IsNullish(v) THEN Null ELSE Str(JsString(v))

\* values: column -> value; a later path with the same column overwrites.
IndexValuesOf(ps, validatedDoc) ==
    LET last(c) == CHOOSE i \in 1..Len(ps) :
                      /\ colName(ps[i]) = c
                      /\ \A j \in 1..Len(ps) : colName(ps[j]) = c => j <= i
    IN  [c \in {colName(ps[i]) : i \in 1..Len(ps)} |->
            IndexValue(validatedDoc, ps[last(c)])]

IndexValues(validatedDoc) == IndexValuesOf(cfg.indexes, validatedDoc)

\* x || null
OrNull(v) == IF Truthy(v) THEN v ELSE Null

\* The text of one output element: string content verbatim, the text parts
\* of a content array joined by " ", else the element's text.
OutputContent(outputItem) ==
    LET content == Prop(outputItem, "content")
        text    == Prop(outputItem, "text")
        IsText(part) == /\ Prop(part, "type") \in {Str("text"), Str("output_text")}
                        /\ Truthy(Prop(part, "text"))
    IN  IF Truthy(content)
        THEN IF content.t = "string" THEN content
             ELSE IF content.t = "array"
                  THEN LET sel == SelectSeq(content.a, IsText)
                       IN  Str(Join([i \in 1..Len(sel) |-> JsString(sel[i].o.text)], " "))
                  ELSE Null
        ELSE IF Truthy(text) THEN text ELSE Null

Truncate(c) ==
    IF Truthy(c) /\ c.t = "string" /\ Len(c.s) > maxContentLength
    THEN Str(SubSeq(c.s, 1, maxContentLength)) ELSE c

\* The estimate taken from the stored excerpt instead of the whole text.
ContentTokensOfExcerpt(c) ==
    IF IsResponses /\ Truthy(c) /\ c.t = "string"
    THEN Num((Len(Truncate(c).s) + 3) \div 4) ELSE Null

\* Math.ceil(length / 4) of the untruncated text (responses store only).
ContentTokens(c) ==
    IF IsResponses /\ Truthy(c) /\ c.t = "string"
    THEN Num((Len(c.s) + 3) \div 4) ELSE Null

\* The row of element i (0-based) of the output array.  The generic store's
\* output_index table has no output_status and content_tokens columns: they
\* stay NULL there.
OutputRow(parent, i, outputItem) ==
    [parent         |-> parent,
     output_index   |-> i,
     output_type    |-> OrNull(Prop(outputItem, "type")),
     output_role    |-> OrNull(Prop(outputItem, "role")),
     output_status  |-> IF IsResponses THEN OrNull(Prop(outputItem, "status")) ELSE Null,
     output_content |-> Truncate(OutputContent(outputItem)),
     content_tokens |-> ContentTokens(OutputContent(outputItem))]

\* The key child rows carry: items.id in the generic store, the document's
\* own id field (response_id) in the responses store.
ParentKey(id, validatedDoc) ==
    IF IsResponses THEN Prop(validatedDoc, "id").s ELSE id

\* Whether the insert of element i (0-based) throws: reading a property of
\* null, a missing table, or PRIMARY KEY(response_id, output_index).
OutputInsertThrows(rows, parent, i, outputItem) ==
    \/ IsNullish(outputItem)
    \/ ~output_index.exists
    \/ /\ IsResponses
       /\ \E r \in rows : r.parent = parent /\ r.output_index = i

\* The output loop: the rows after inserting elements from (1-based) n on,
\* stopping at the first insert that throws.
RECURSIVE InsertOutputs(_, _, _, _)
InsertOutputs(rows, parent, outputs, n) ==
    IF n > Len(outputs) THEN [rows |-> rows, thrown |-> FALSE]
    ELSE IF OutputInsertThrows(rows, parent, n - 1, outputs[n])
         THEN [rows |-> rows, thrown |-> TRUE]
         ELSE InsertOutputs(rows \cup {OutputRow(parent, n - 1, outputs[n])},
                            parent, outputs, n + 1)

\* JSON.stringify for the body column and JSON.parse for reading it back.
JsonStringify(v) == [json |-> JsonRoundTrip(v)]
JsonParse(text)  == text.json

\* The document row.  The generic store has no response_id, status, model,
\* created_at and total_tokens columns: they stay NULL there.  The wall-clock
\* column ts and the constant schema_version are left out; src remembers the
\* submitted body and is not a column.
ItemRowOf(ps, id, validatedDoc, doc) ==
    [id           |-> id,
     response_id  |-> IF IsResponses THEN Prop(validatedDoc, "id") ELSE Null,
     status       |-> IF IsResponses THEN Prop(validatedDoc, "status") ELSE Null,
     model        |-> IF IsResponses THEN Prop(validatedDoc, "model") ELSE Null,
     created_at   |-> IF IsResponses THEN Prop(validatedDoc, "created_at") ELSE Null,
     total_tokens |-> IF IsResponses
                      THEN OrNull(Prop(Prop(validatedDoc, "usage"), "total_tokens"))
                      ELSE Null,
     body         |-> JsonStringify(validatedDoc),
     k            |-> IndexValuesOf(ps, validatedDoc),
     src          |-> doc]

ItemRow(id, validatedDoc, doc) == ItemRowOf(cfg.indexes, id, validatedDoc, doc)

\* Details without the path of the issue: messages of different paths merge.
DetailsNoPath(issues) == {i.message : i \in issues}

\* One message per issue: `${e.path.join('.')}: ${e.message}`.
Details(issues) == {i.path \o ": " \o i.message : i \in issues}

\* The POST handler: the response and the two tables after it.  An exception
\* of the generic store leaves the handler; the responses store catches it
\* and answers 500; neither undoes the rows already inserted.  A validated
\* document that is null (a schema of z.any() lets it pass) makes
\* extractOutputValues throw on doc.output before the insert when an index
\* path starts with "output.", and docAsAny.output throw after the insert
\* otherwise.
handlePostOf(c, doc, id) ==
    LET same   == [items |-> items, output_index |-> output_index]
        result == Validation[handler][c.schema][doc]
    IN  IF IsResponses /\ ~Truthy(doc)
        THEN [resp |-> [NoResp EXCEPT !.status = 400, !.error = "invalid_json"]] @@ same
        ELSE IF ~result.success
        THEN [resp |-> [NoResp EXCEPT !.status = 400,
                                      !.error = IF IsResponses
                                                THEN "invalid_response_document"
                                                ELSE "invalid_document",
                                      !.details = Details(result.issues)]] @@ same
        ELSE
        LET validatedDoc == result.data
            row          == ItemRowOf(c.indexes, id, validatedDoc, doc)
            nullDoc      == IsNullish(validatedDoc)
            rowThrows    == \/ ~items.exists
                            \/ ~(DOMAIN row.k \subseteq items.cols)
                            \/ /\ nullDoc
                               /\ \E i \in 1..Len(c.indexes) :
                                     StartsWith(c.indexes[i], "output.")
            stored       == [row EXCEPT !.k = [col \in items.cols |->
                                              IF col \in DOMAIN row.k THEN row.k[col]
                                              ELSE Null]]
            items1       == [items EXCEPT !.rows = Append(@, stored)]
            output       == Prop(validatedDoc, "output")
            outputs      == IF Truthy(output) /\ output.t = "array" THEN output.a ELSE <<>>
            ins          == IF nullDoc
                            THEN [rows |-> output_index.rows, thrown |-> TRUE]
                            ELSE InsertOutputs(output_index.rows,
                                               ParentKey(id, validatedDoc), outputs, 1)
            failure      == [NoResp EXCEPT !.status = 500,
                                           !.error = IF IsResponses THEN "internal_error"
                                                     ELSE "exception"]
        IN  IF rowThrows THEN [resp |-> failure] @@ same
            ELSE IF ins.thrown
            THEN [resp         |-> failure,
                  items        |-> items1,
                  output_index |-> [output_index EXCEPT !.rows = ins.rows]]
            ELSE [resp         |-> [NoResp EXCEPT
                                       !.status = 200,
                                       !.id = id,
                                       !.outputs_indexed =
                                           IF IsResponses THEN Num(Len(outputs)) ELSE UNDEF],
                  items        |-> items1,
                  output_index |-> [output_index EXCEPT !.rows = ins.rows]]

\* The handler as ActorDO.fetch calls it: with this.cfg of the moment.
handlePost(doc, id) == handlePostOf(cfg, doc, id)

UsedIds == {items.rows[i].id : i \in 1..Len(items.rows)}

\* POST .../items, POST .../responses
Post(doc, id) ==
    LET r == handlePost(doc, id)
    IN  /\ handler # NoHandler
        /\ items' = r.items
        /\ output_index' = r.output_index
        /\ req' = [NoReq EXCEPT !.op = "post", !.doc = doc, !.id = id]
        /\ resp' = r.resp
        /\ UNCHANGED <<cfg, storedIndexes>>
        /\ UNCHANGED <<awaiting, handler, ACTOR_DO, PASEO_POD, issued, wreq, wresp>>

(***************************************************************************)
(* Queries: GET .../items, GET .../responses and the lookups by id.        *)
(***************************************************************************)
\* url.searchParams.get(name): null when the parameter is absent.
Param(q, name) == IF name \in DOMAIN q THEN q[name] ELSE NULL

\* if (param): present and not the empty string.
Given(x) == x # NULL /\ x # ""

Digits == <<"0", "1", "2", "3", "4", "5", "6", "7", "8", "9">>
IsDigit(c) == \E d \in 1..10 : Digits[d] = c
DigitVal(c) == (CHOOSE d \in 1..10 : Digits[d] = c) - 1

NaN == [t |-> "NaN"]

RECURSIVE LeadingDigits(_, _, _)
LeadingDigits(str, i, acc) ==
    IF i <= Len(str) /\ IsDigit(Chr(str, i))
    THEN LeadingDigits(str, i + 1, 10 * acc + DigitVal(Chr(str, i)))
    ELSE acc

\* parseInt: an optional sign and the leading decimal digits, NaN without any.
parseInt(str) ==
    LET neg   == Len(str) >= 1 /\ Chr(str, 1) = "-"
        first == IF neg THEN 2 ELSE 1
    IN  IF first <= Len(str) /\ IsDigit(Chr(str, first))
        THEN Num((IF neg THEN -1 ELSE 1) * LeadingDigits(str, first, 0))
        ELSE NaN

\* The default and the largest page size of a list request.
DefaultLimit == 50
LimitCap     == 200

\* Math.min(parseInt(limit || "50"), 200)
LimitOf(q) ==
    LET n == IF Given(Param(q, "limit")) THEN parseInt(Param(q, "limit"))
             ELSE Num(DefaultLimit)
    IN  IF n.t = "NaN" THEN NaN
        ELSE Num(IF n.n < LimitCap THEN n.n ELSE LimitCap)

Upper == <<"A","B","C","D","E","F","G","H","I","J","K","L","M","N","O","P","Q",
           "R","S","T","U","V","W","X","Y","Z">>
Lower == <<"a","b","c","d","e","f","g","h","i","j","k","l","m","n","o","p","q",
           "r","s","t","u","v","w","x","y","z">>
Fold(c) == IF \E i \in 1..26 : Upper[i] = c
           THEN Lower[CHOOSE i \in 1..26 : Upper[i] = c] ELSE c

\* SQLite's LIKE: % matches any run, _ any one character, ASCII letters
\* match without regard to case.
RECURSIVE Like(_, _, _, _)
Like(text, i, pat, j) ==
    IF j > Len(pat) THEN i > Len(text)
    ELSE IF Chr(pat, j) = "%"
         THEN \E n \in i..(Len(text) + 1) : Like(text, n, pat, j + 1)
         ELSE /\ i <= Len(text)
              /\ Chr(pat, j) = "_" \/ Fold(Chr(text, i)) = Fold(Chr(pat, j))
              /\ Like(text, i + 1, pat, j + 1)

\* An equality clause that every non-NULL value satisfies.
SqlEqAny(col, val) == col.t = "string"

\* column = ? and column LIKE ? are never true of NULL.
SqlEq(col, val)   == col.t = "string" /\ col.s = val
SqlLike(col, pat) == col.t = "string" /\ Like(col.s, 1, pat, 1)

\* The column the list is ordered and paged by: items.id, and
\* responses.response_id in the responses store.
CursorKey(row) == IF IsResponses THEN row.response_id.s ELSE row.id

\* The output filters the handler reads; output_status only in the
\* responses store.
OutputFilters ==
    IF IsResponses THEN {"output_type", "output_role", "output_content", "output_status"}
    ELSE {"output_type", "output_role", "output_content"}

Joins(q) == \E f \in OutputFilters : Given(Param(q, f))

\* The WHERE clauses on the joined output row.
OutputRowMatches(q, o) ==
    /\ Given(Param(q, "output_type")) => SqlEq(o.output_type, q["output_type"])
    /\ Given(Param(q, "output_role")) => SqlEq(o.output_role, q["output_role"])
    /\ Given(Param(q, "output_content")) =>
          SqlLike(o.output_content, "%" \o q["output_content"] \o "%")
    /\ (IsResponses /\ Given(Param(q, "output_status"))) =>
          SqlEq(o.output_status, q["output_status"])

\* A handler that reads no k_ parameter.
KFiltersIgnored(q) == {}

\* The k_ parameters: every one becomes a clause on the column of that name.
KFilters(q) == {name \in DOMAIN q : StartsWith(name, "k_")}

\* The WHERE clauses on the document row.
ItemRowMatches(q, row) ==
    /\ Given(Param(q, "after")) => IdLess(q["after"], CursorKey(row))
    /\ (IsResponses /\ Given(Param(q, "status"))) => SqlEq(row.status, q["status"])
    /\ (IsResponses /\ Given(Param(q, "model")))  => SqlEq(row.model, q["model"])
    /\ (IsResponses /\ Given(Param(q, "min_tokens"))) =>
          LET n == parseInt(q["min_tokens"])
          IN  n.t = "number" /\ row.total_tokens.t = "number" /\ row.total_tokens.n >= n.n
    /\ (IsResponses /\ Given(Param(q, "max_tokens"))) =>
          LET n == parseInt(q["max_tokens"])
          IN  n.t = "number" /\ row.total_tokens.t = "number" /\ row.total_tokens.n <= n.n
    /\ \A name \in KFilters(q) : SqlEq(row.k[name], q[name])

\* FROM items [JOIN output_index ON key] WHERE ...: the positions of the
\* rows SELECT DISTINCT keeps.
Matching(q) ==
    {i \in 1..Len(items.rows) :
        /\ ItemRowMatches(q, items.rows[i])
        /\ Joins(q) =>
              \E o \in output_index.rows :
                  /\ o.parent = (IF IsResponses THEN items.rows[i].response_id.s
                                 ELSE items.rows[i].id)
                  /\ OutputRowMatches(q, o)}

\* ORDER BY key ASC; rows with equal keys in rowid order.
Before(i, j) ==
    \/ IdLess(CursorKey(items.rows[i]), CursorKey(items.rows[j]))
    \/ CursorKey(items.rows[i]) = CursorKey(items.rows[j]) /\ i < j

RECURSIVE Ordered(_)
Ordered(S) ==
    IF S = {} THEN <<>>
    ELSE LET m == CHOOSE i \in S : \A j \in S \ {i} : Before(i, j)
         IN  <<m>> \o Ordered(S \ {m})

\* LIMIT n: a negative n is no limit.
Limit(seq, n) == IF n < 0 \/ n >= Len(seq) THEN seq ELSE SubSeq(seq, 1, n)

\* A row as the list and the lookup return it, the body parsed.
Record(row) ==
    [id           |-> row.id,
     response_id  |-> row.response_id,
     status       |-> row.status,
     model        |-> row.model,
     total_tokens |-> row.total_tokens,
     body         |-> JsonParse(row.body)]

\* The list handler.  A missing table, a k_ parameter that names no column
\* and a NaN limit make the statement throw.
handleList(q) ==
    LET limit == LimitOf(q)
    IN  IF \/ ~items.exists
           \/ Joins(q) /\ ~output_index.exists
           \/ ~(KFilters(q) \subseteq items.cols)
           \/ limit.t = "NaN"
        THEN Thrown500
        ELSE LET results == Limit(Ordered(Matching(q)), limit.n)
             IN  [NoResp EXCEPT
                     !.status = 200,
                     !.records = [i \in 1..Len(results) |-> Record(items.rows[results[i]])],
                     !.next_after = IF Len(results) > 0
                                    THEN CursorKey(items.rows[results[Len(results)]])
                                    ELSE NULL]

\* GET .../items/{itemId}, GET .../responses/{responseId}: cursor.one()
\* throws unless exactly one row has the identifier.
handleGet(itemId) ==
    LET found == {i \in 1..Len(items.rows) : CursorKey(items.rows[i]) = itemId}
    IN  IF ~items.exists \/ Cardinality(found) # 1 THEN Thrown500
        ELSE [NoResp EXCEPT
                 !.status = 200,
                 !.id = items.rows[CHOOSE i \in found : TRUE].id,
                 !.body = JsonParse(items.rows[CHOOSE i \in found : TRUE].body)]

List(q) ==
    /\ handler # NoHandler
    /\ req' = [NoReq EXCEPT !.op = "list", !.query = q]
    /\ resp' = handleList(q)
    /\ UNCHANGED <<cfg, storedIndexes, items, output_index>>
    /\ UNCHANGED <<awaiting, handler, ACTOR_DO, PASEO_POD, issued, wreq, wresp>>

Get(itemId) ==
    /\ handler # NoHandler
    /\ req' = [NoReq EXCEPT !.op = "get", !.id = itemId]
    /\ resp' = handleGet(itemId)
    /\ UNCHANGED <<cfg, storedIndexes, items, output_index>>
    /\ UNCHANGED <<awaiting, handler, ACTOR_DO, PASEO_POD, issued, wreq, wresp>>

PreviewMax == 200

\* CASE WHEN LENGTH(output_content) > 200 THEN SUBSTR(output_content, 1, 200)
\* || '...' ELSE output_content END
Preview(c) ==
    IF c.t = "string" /\ Len(c.s) > PreviewMax
    THEN Str(SubSeq(c.s, 1, PreviewMax) \o "...") ELSE c

\* GET .../responses/{responseId}/outputs: the array rows of the document in
\* position order, 404 when it has none.  The generic store has no such
\* route and answers 404.
handleOutputs(responseId) ==
    LET rows == {o \in output_index.rows : o.parent = responseId}
        at(i) == CHOOSE o \in rows :
                    Cardinality({x \in rows : x.output_index < o.output_index}) = i - 1
    IN  IF ~IsResponses THEN [NoResp EXCEPT !.status = 404]
        ELSE IF ~output_index.exists THEN Thrown500
        ELSE IF rows = {} THEN [NoResp EXCEPT !.status = 404]
        ELSE [NoResp EXCEPT
                 !.status = 200,
                 !.body = Arr([i \in 1..Cardinality(rows) |->
                     Obj([output_index   |-> Num(at(i).output_index),
                          output_type    |-> at(i).output_type,
                          output_role    |-> at(i).output_role,
                          output_status  |-> at(i).output_status,
                          content_tokens |-> at(i).content_tokens,
                          output_content_preview |-> Preview(at(i).output_content)])])]

Outputs(responseId) ==
    /\ handler # NoHandler
    /\ req' = [NoReq EXCEPT !.op = "outputs", !.id = responseId]
    /\ resp' = handleOutputs(responseId)
    /\ UNCHANGED <<cfg, storedIndexes, items, output_index>>
    /\ UNCHANGED <<awaiting, handler, ACTOR_DO, PASEO_POD, issued, wreq, wresp>>

\* The list requests of the model.
Queries ==
    { <<>>,
      [output_role |-> "assistant"],
      [output_role |-> "tool"],
      [output_status |-> "done"],
      [status |-> "completed"],
      [status |-> "failed"],
      [k_status |-> "completed"],
      [k_status |-> "failed"],
      [min_tokens |-> "0", max_tokens |-> "2"],
      [limit |-> "1"],
      [limit |-> "-1"],
      [limit |-> "1", after |-> "r1"],
      [limit |-> "1", after |-> "u1"] }

(***************************************************************************)
(* The cell's behaviours.                                                  *)
(***************************************************************************)
Next ==
    \/ \E incoming \in SeedInputs : Seed(incoming)
    \/ \E doc \in DocInputs, id \in Uuids \ UsedIds :
          Len(items.rows) < MaxDocs /\ Post(doc, id)
    \/ \E q \in Queries : List(q)
    \/ \E itemId \in ExtIds \cup Uuids : Get(itemId)

Spec == Init /\ [][Next]_vars

\* The cell under its writing requests alone: seeds and ingests.
NextIngest ==
    \/ \E incoming \in SeedInputs : Seed(incoming)
    \/ \E doc \in DocInputs, id \in Uuids \ UsedIds :
          Len(items.rows) < MaxDocs /\ Post(doc, id)

SpecIngest == Init /\ [][NextIngest]_vars

\* The cell under seeds, ingests and the lists that filter by an index
\* column or by the content of an element.
FilterQueries ==
    { [k_status |-> "completed"],
      [k_status |-> "1"],
      [output_content |-> "hi"],
      [output_content |-> "HI"],
      [output_content |-> "_"] }

NextFilters ==
    \/ \E incoming \in SeedInputs : Seed(incoming)
    \/ \E doc \in DocInputs, id \in Uuids \ UsedIds :
          Len(items.rows) < MaxDocs /\ Post(doc, id)
    \/ \E q \in FilterQueries : List(q)

SpecFilters == Init /\ [][NextFilters]_vars

\* The cell under seeds and the ingests of the documents for extraction.
NextExtract ==
    \/ \E incoming \in SeedInputs : Seed(incoming)
    \/ \E doc \in ExtractDocs, id \in Uuids \ UsedIds :
          Len(items.rows) < MaxDocs /\ Post(doc, id)

SpecExtract == Init /\ [][NextExtract]_vars

\* The cell under seeds and the ingests of the documents with long texts.
NextExcerpt ==
    \/ \E incoming \in ParamSeeds : Seed(incoming)
    \/ \E doc \in ExcerptDocs, id \in Uuids \ UsedIds :
          Len(items.rows) < MaxDocs /\ Post(doc, id)

SpecExcerpt == Init /\ [][NextExcerpt]_vars

\* The index lists of one or two paths around the column-name length.
PathLists ==
    {<<p>> : p \in ColumnPaths} \cup {<<p, q>> : p, q \in ColumnPaths}

\* The cell under seeds of those lists: ensureSchema names the columns.
NextColumns == \E l \in PathLists : Seed([indexes |-> l])

SpecColumns == Init /\ [][NextColumns]_vars

\* An init that keeps the default configuration instead of the persisted
\* one.
RestartDefault ==
    LET d == [cfg EXCEPT !.actorType = "store", !.schema = SchemaDefault,
                         !.indexes = <<>>]
        r == ensureSchema(d)
    IN  /\ awaiting = NoAwait
        /\ req' = [NoReq EXCEPT !.op = "init"]
        /\ cfg' = d
        /\ handler' = d.actorType
        /\ storedIndexes' = r.storedIndexes
        /\ items' = r.items
        /\ output_index' = r.output_index
        /\ resp' = IF r.ok THEN Ok200 ELSE Thrown500
        /\ UNCHANGED awaiting
        /\ UNCHANGED workerVars

\* ActorDO.init in a new instance of the cell (after an eviction): the
\* persisted configuration is loaded, the handler built and ensureSchema
\* run; the request that woke the instance follows as its own step.
Restart ==
    LET r == ensureSchema(cfg)
    IN  /\ awaiting = NoAwait
        /\ req' = [NoReq EXCEPT !.op = "init"]
        /\ IF cfg.actorType \in ActorTypes
           THEN /\ handler' = cfg.actorType
                /\ storedIndexes' = r.storedIndexes
                /\ items' = r.items
                /\ output_index' = r.output_index
                /\ resp' = IF r.ok THEN Ok200 ELSE Thrown500
           ELSE /\ handler' = NoHandler
                /\ resp' = Thrown500
                /\ UNCHANGED <<storedIndexes, items, output_index>>
        /\ UNCHANGED <<cfg, awaiting>>
        /\ UNCHANGED workerVars

\* The cell under seeds, ingests, restarts and the three kinds of read.
ReadQueries == {<<>>, [output_role |-> "assistant"], [k_status |-> "completed"]}
ReadIds     == {"u1", "r1"}

NextReads ==
    \/ \E l \in IndexLists : Seed([indexes |-> l])
    \/ \E doc \in {DocTwo, DocNone, DocScenario}, id \in Uuids \ UsedIds :
          Len(items.rows) < MaxDocs /\ Post(doc, id)
    \/ \E q \in ReadQueries : List(q)
    \/ \E itemId \in ReadIds : Get(itemId)
    \/ \E responseId \in ReadIds : Outputs(responseId)
    \/ Restart

SpecReads == Init /\ [][NextReads]_vars

\* The cell under schema seeds, ingests and the lists with two filters on
\* the elements.
PairQueries ==
    { [output_role |-> "assistant", output_status |-> "done"],
      [output_role |-> "user", output_status |-> "done"],
      [output_type |-> "message", output_role |-> "user"],
      [output_type |-> "message", output_role |-> "assistant"] }

NextPairs ==
    \/ \E sc \in Schemas : Seed([schema |-> sc])
    \/ \E doc \in {DocTwo, DocZeroTok, DocTwoTok}, id \in Uuids \ UsedIds :
          Len(items.rows) < MaxDocs /\ Post(doc, id)
    \/ \E q \in PairQueries : List(q)

SpecPairs == Init /\ [][NextPairs]_vars

\* A seed that names an actor type the registry does not hold.
UnknownSeeds == {[actorType |-> "ghost"]}

\* The cell under seeds, an unknown actor type among them, ingests,
\* restarts and the requests to an instance whose init throws.
NextUnknown ==
    \/ \E incoming \in UnknownSeeds \cup {[indexes |-> l] : l \in IndexLists} :
          Seed(incoming)
    \/ \E doc \in {DocTwo, DocBadStatus}, id \in Uuids \ UsedIds :
          Len(items.rows) < MaxDocs /\ Post(doc, id)
    \/ Restart
    \/ InitThrows

SpecUnknown == Init /\ [][NextUnknown]_vars

\* The cell under seeds, ingests and restarts.
NextReconfig ==
    \/ \E incoming \in SeedInputs : Seed(incoming)
    \/ \E doc \in DocInputs, id \in Uuids \ UsedIds :
          Len(items.rows) < MaxDocs /\ Post(doc, id)
    \/ Restart

SpecReconfig == Init /\ [][NextReconfig]_vars

(***************************************************************************)
(* The cell with the ingest in its two parts.  ActorDO.fetch calls         *)
(* this.handler.handle(req, this.db, this.cfg) and the handler awaits the  *)
(* request body first; a Durable Object admits other requests while a      *)
(* request awaits I/O that is not storage.  The validation and the SQL     *)
(* statements after the body has arrived are synchronous.  One ingest is   *)
(* suspended at a time.                                                    *)
(***************************************************************************)
\* ActorDO.fetch up to `await req.json()`: the handler and the
\* configuration of this moment are the ones the ingest goes on with.
PostEnter ==
    /\ handler # NoHandler
    /\ awaiting = NoAwait
    /\ Len(items.rows) < MaxDocs
    /\ awaiting' = [op |-> "post", cfg |-> cfg]
    /\ UNCHANGED <<cfg, storedIndexes, items, output_index, req, resp, handler>>
    /\ UNCHANGED workerVars

\* The body has arrived: validation and writes.
PostResume(doc, id) ==
    LET r == handlePostOf(awaiting.cfg, doc, id)
    IN  /\ awaiting.op = "post"
        /\ items' = r.items
        /\ output_index' = r.output_index
        /\ req' = [NoReq EXCEPT !.op = "post", !.doc = doc, !.id = id]
        /\ resp' = r.resp
        /\ awaiting' = NoAwait
        /\ UNCHANGED <<cfg, storedIndexes, handler>>
        /\ UNCHANGED workerVars

NextInterleaved ==
    \/ \E incoming \in SeedInputs : Seed(incoming)
    \/ PostEnter
    \/ \E doc \in DocInputs, id \in Uuids \ UsedIds : PostResume(doc, id)

SpecInterleaved == Init /\ [][NextInterleaved]_vars

(***************************************************************************)
(* The router of the actor cells (src/index.ts, the version with           *)
(* env.ACTOR_DO).                                                          *)
(***************************************************************************)
\* ActorDO.fetch behind the router, on the reduced cell: __seed replaces the
\* index list and, as ensureSchema does, empties the tables when the list
\* changed; POST items appends a body; GET items lists the bodies.
\* CREATE TABLE fails on an index list with two paths of one column name;
\* the tables were dropped before and stay missing until another list is
\* seeded, so every statement on them throws.
TableMissing(indexes) ==
    \E i, j \in 1..Len(indexes) : i # j /\ colName(indexes[i]) = colName(indexes[j])

cellFetch(cell, sub, indexes, doc) ==
    CASE sub = "__seed" ->
            [cell    |-> [indexes |-> indexes,
                          docs    |-> IF indexes = cell.indexes THEN cell.docs
                                      ELSE <<>>],
             records |-> <<>>,
             threw   |-> TableMissing(indexes)]
      [] sub = "post"   ->
            [cell    |-> IF TableMissing(cell.indexes) THEN cell
                         ELSE [cell EXCEPT !.docs = Append(@, doc)],
             records |-> <<>>,
             threw   |-> TableMissing(cell.indexes)]
      [] OTHER          ->
            [cell    |-> cell,
             records |-> IF TableMissing(cell.indexes) THEN <<>> ELSE cell.docs,
             threw   |-> TableMissing(cell.indexes)]

\* The Worker's answer when the awaited stub.fetch rejects: an exception a
\* Durable Object does not catch is thrown at the caller's stub.fetch, and
\* the Worker does not catch it either.
WorkerThrew == [NoWResp EXCEPT !.status = 500, !.text = "exception"]

\* A router that does not wait for the seed's outcome.
RoutePostActorsDetached(podName, actorId, indexes) ==
    LET key == actorKey(podName, actorId)
        r   == cellFetch(ACTOR_DO[key], "__seed", indexes, "")
    IN  /\ ACTOR_DO' = [ACTOR_DO EXCEPT ![key] = r.cell]
        /\ wreq' = [NoWReq EXCEPT !.worker = "ACTOR_DO", !.route = "POST /pods/{podName}/actors",
                                  !.podName = podName, !.actorId = actorId,
                                  !.sub = "__seed", !.indexes = indexes]
        /\ wresp' = [NoWResp EXCEPT !.status = 200, !.name = podName,
                                    !.actorId = actorId]
        /\ UNCHANGED <<PASEO_POD, issued>>
        /\ UNCHANGED cellVars

\* POST /pods
RoutePostPods(podName) ==
    /\ wreq' = [NoWReq EXCEPT !.worker = "ACTOR_DO", !.route = "POST /pods"]
    /\ wresp' = [NoWResp EXCEPT !.status = 200, !.name = podName]
    /\ UNCHANGED <<ACTOR_DO, PASEO_POD, issued>>
    /\ UNCHANGED cellVars

\* GET /pods/{podName}
RouteGetPod(podName) ==
    /\ wreq' = [NoWReq EXCEPT !.worker = "ACTOR_DO", !.route = "GET /pods/{podName}", !.podName = podName]
    /\ wresp' = [NoWResp EXCEPT !.status = 200, !.name = podName, !.text = "ok"]
    /\ UNCHANGED <<ACTOR_DO, PASEO_POD, issued>>
    /\ UNCHANGED cellVars

\* POST /pods/{podName}/actors: a fresh actorId, the cell under the actor
\* key seeded with the configuration of the body.
RoutePostActors(podName, actorId, indexes) ==
    LET key == actorKey(podName, actorId)
        r   == cellFetch(ACTOR_DO[key], "__seed", indexes, "")
    IN  /\ ACTOR_DO' = [ACTOR_DO EXCEPT ![key] = r.cell]
        /\ wreq' = [NoWReq EXCEPT !.worker = "ACTOR_DO", !.route = "POST /pods/{podName}/actors",
                                  !.podName = podName, !.actorId = actorId,
                                  !.sub = "__seed", !.indexes = indexes]
        /\ wresp' = IF r.threw THEN WorkerThrew
                    ELSE [NoWResp EXCEPT !.status = 200, !.name = podName,
                                         !.actorId = actorId]
        /\ UNCHANGED <<PASEO_POD, issued>>
        /\ UNCHANGED cellVars

\* /pods/{podName}/actors/{actorId}/...: the request goes to the cell under
\* the actor key.
RouteActor(podName, actorId, sub, indexes, doc) ==
    LET key == actorKey(podName, actorId)
        r   == cellFetch(ACTOR_DO[key], sub, indexes, doc)
    IN  /\ sub = "post" => Len(ACTOR_DO[key].docs) < MaxCellDocs
        /\ ACTOR_DO' = [ACTOR_DO EXCEPT ![key] = r.cell]
        /\ wreq' = [NoWReq EXCEPT !.worker = "ACTOR_DO", !.route = "/pods/{podName}/actors/{actorId}",
                                  !.podName = podName, !.actorId = actorId,
                                  !.sub = sub, !.indexes = indexes, !.doc = doc]
        /\ wresp' = IF r.threw THEN WorkerThrew
                    ELSE [NoWResp EXCEPT !.status = 200, !.records = r.records]
        /\ UNCHANGED <<PASEO_POD, issued>>
        /\ UNCHANGED cellVars

NextRouter ==
    \/ \E podName \in PodUuids : RoutePostPods(podName)
    \/ \E podName \in PodNames : RouteGetPod(podName)
    \/ \E podName \in PodNames, actorId \in ActorUuids, indexes \in CellIndexes :
          RoutePostActors(podName, actorId, indexes)
    \/ \E podName \in PodNames, actorId \in ActorIds, indexes \in CellIndexes :
          RouteActor(podName, actorId, "__seed", indexes, "")
    \/ \E podName \in PodNames, actorId \in ActorIds, doc \in CellDocs :
          RouteActor(podName, actorId, "post", <<>>, doc)
    \/ \E podName \in PodNames, actorId \in ActorIds :
          RouteActor(podName, actorId, "list", <<>>, "")

SpecRouter == Init /\ [][NextRouter]_vars

\* The configurations of an actor creation: two of them name one column
\* twice.
CreateIndexes ==
    {<<>>, <<"status">>, <<"status", "status">>, <<"output.role", "output_role">>}

\* The router under actor creations and the requests to the created cells.
NextCreate ==
    \/ \E podName \in PodNames, actorId \in ActorUuids, indexes \in CreateIndexes :
          RoutePostActors(podName, actorId, indexes)
    \/ \E podName \in PodNames, actorId \in ActorIds \cup ActorUuids, doc \in CellDocs :
          RouteActor(podName, actorId, "post", <<>>, doc)
    \/ \E podName \in PodNames, actorId \in ActorIds \cup ActorUuids :
          RouteActor(podName, actorId, "list", <<>>, "")

SpecCreate == Init /\ [][NextCreate]_vars

(***************************************************************************)
(* Properties of ingestion.                                                *)
(***************************************************************************)
\* The outcome of the validator on a request body under the cell's
\* configuration.
Validated(doc) == Validation[handler][cfg.schema][doc]

\* Whether the validator is run on the body: the responses store answers a
\* body that is not a JSON value (or is null) before validating.
ReachesValidator(doc) == ~(IsResponses /\ ~Truthy(doc))

InvalidPaths(doc) == {i.path : i \in Validated(doc).issues}

\* C1: an ingest of a document that fails the cell's validator is rejected
\* (status 400), the document table and the array-index table hold the same
\* rows after it as before, and, when the validator was run, the response
\* carries exactly one message for each invalid path.
C1_InvalidRejected ==
    [][(req'.op = "post" /\ ~Validated(req'.doc).success) =>
          /\ resp'.status = 400
          /\ items' = items
          /\ output_index' = output_index
          /\ ReachesValidator(req'.doc) =>
                /\ Cardinality(resp'.details) = Cardinality(InvalidPaths(req'.doc))
                /\ \A p \in InvalidPaths(req'.doc) :
                      Cardinality({m \in resp'.details :
                                      StartsWith(m, p \o ": ")}) = 1]_vars

\* C1 happens: a document with several invalid paths was rejected by a cell
\* that already stores a document and its array rows.
C1_Witness ==
    /\ req.op = "post"
    /\ resp.status = 400
    /\ ~Validated(req.doc).success
    /\ Cardinality(InvalidPaths(req.doc)) >= 2
    /\ Cardinality(resp.details) >= 2
    /\ Len(items.rows) >= 1
    /\ output_index.rows # {}

\* The elements of the output array of a document, none when it has no
\* output array.
OutputsOf(doc) ==
    LET output == Prop(doc, "output")
    IN  IF Truthy(output) /\ output.t = "array" THEN output.a ELSE <<>>

\* The array rows stored under the key of the document row with this id.
ChildRows(id) ==
    {o \in output_index.rows :
        \E i \in 1..Len(items.rows) :
            /\ items.rows[i].id = id
            /\ o.parent = (IF IsResponses THEN items.rows[i].response_id.s ELSE id)}

\* C2: ingest is atomic.  After an ingest that failed no document row of
\* that request is stored; after one that succeeded the document row is
\* stored together with one array row for every element of its output.
C2_IngestAtomic ==
    req.op = "post" =>
        LET stored == \E i \in 1..Len(items.rows) : items.rows[i].id = req.id
            n      == Len(OutputsOf(Validated(req.doc).data))
        IN  /\ resp.status # 200 => ~stored
            /\ resp.status = 200 =>
                  /\ stored
                  /\ \A k \in 0..(n - 1) :
                        \E o \in ChildRows(req.id) : o.output_index = k

\* C3: ingesting a valid document whose output has N elements succeeds,
\* leaves exactly N array rows for that document, one at each of the
\* positions 0..N-1, and returns the child count N.
C3_OneRowPerElement ==
    (req.op = "post" /\ ReachesValidator(req.doc) /\ Validated(req.doc).success) =>
        LET n == Len(OutputsOf(req.doc))
        IN  /\ resp.status = 200
            /\ resp.outputs_indexed = Num(n)
            /\ Cardinality(ChildRows(req.id)) = n
            /\ \A k \in 0..(n - 1) :
                  Cardinality({o \in ChildRows(req.id) : o.output_index = k}) = 1

\* C4: get-by-id of a stored document returns a body identical to the
\* document that was submitted.
C4_RoundTrip ==
    (req.op = "get" /\ resp.status = 200) =>
        \A i \in 1..Len(items.rows) :
            CursorKey(items.rows[i]) = req.id => resp.body = items.rows[i].src

(***************************************************************************)
(* Properties of the list.                                                 *)
(***************************************************************************)
\* The array tags a list can filter on, and the element field of each.
TagField(f) ==
    CASE f = "output_type"   -> "type"
      [] f = "output_role"   -> "role"
      [] f = "output_status" -> "status"

TagFilters == {"output_type", "output_role", "output_status"}

\* The stored document of a row has an element with the tag.
HasTag(row, f, val) ==
    \E e \in Range(OutputsOf(JsonParse(row.body))) : Prop(e, TagField(f)) = Str(val)

RecordIds(records) == [i \in 1..Len(records) |-> records[i].id]

NoRepeat(seq) == \A i, j \in 1..Len(seq) : seq[i] = seq[j] => i = j

\* C5: a list filtered by one exact-match array tag returns exactly the
\* stored documents that have an element with that tag, each of them once.
C5_TagFilterExact ==
    (/\ req.op = "list"
     /\ resp.status = 200
     /\ \E f \in TagFilters : DOMAIN req.query = {f}) =>
        LET f == CHOOSE g \in TagFilters : DOMAIN req.query = {g}
        IN  /\ NoRepeat(RecordIds(resp.records))
            /\ Range(RecordIds(resp.records)) =
                  {items.rows[i].id : i \in {j \in 1..Len(items.rows) :
                                                HasTag(items.rows[j], f, req.query[f])}}

\* The pages a client reads by following next_after from the first page of
\* q until it is null, concatenated; at most fuel further requests.
RECURSIVE Pages(_, _, _)
Pages(q, after, fuel) ==
    LET r == handleList(IF after = NULL THEN q ELSE [after |-> after] @@ q)
    IN  IF r.status # 200 THEN <<>>
        ELSE IF r.next_after = NULL \/ fuel = 0 THEN r.records
        ELSE r.records \o Pages(q, r.next_after, fuel - 1)

\* The list requests whose pages are followed: page sizes 1 and 2, without
\* and with a filter.
PagedQueries ==
    {[limit |-> "1"], [limit |-> "2"],
     [limit |-> "1", output_role |-> "assistant"]}

\* C6: with no write in between, the pages of a list request with a limit
\* of at least 1, followed through next_after until it is null, hold every
\* matching stored record exactly once, in ascending identifier order.
C6_PaginationExhaustive ==
    (items.exists /\ output_index.exists) =>
        \A q \in PagedQueries :
            LET all == Ordered(Matching(q))
            IN  RecordIds(Pages(q, NULL, MaxDocs + 1)) =
                    [i \in 1..Len(all) |-> items.rows[all[i]].id]

(***************************************************************************)
(* Properties of reconfiguration.                                          *)
(***************************************************************************)
\* The unfiltered list request.
ListAll == handleList(<<>>)

\* A seed request that carries an index list.
SeedsIndexes(r) == r.op = "seed" /\ "indexes" \in DOMAIN r.seed

\* C7: a seed whose index set differs from the persisted baseline leaves
\* both tables recreated and empty and the new set as the baseline, and the
\* unfiltered list that follows returns zero records.
C7_DestructiveRebuild ==
    [][(SeedsIndexes(req') /\ Range(req'.seed.indexes) # Range(storedIndexes)) =>
          /\ items'.exists /\ items'.rows = <<>>
          /\ output_index'.exists /\ output_index'.rows = {}
          /\ Range(storedIndexes') = Range(req'.seed.indexes)
          /\ ListAll'.status = 200
          /\ ListAll'.records = <<>>]_vars

\* C8: the rebuild is decided on the set of index paths.  A seed whose list
\* has the paths of the baseline, in any order and with repeated entries,
\* changes neither table; a seed with another set of paths empties both.
C8_NormalizedCompare ==
    [][SeedsIndexes(req') =>
          IF Range(req'.seed.indexes) = Range(storedIndexes)
          THEN items' = items /\ output_index' = output_index
          ELSE items'.rows = <<>> /\ output_index'.rows = {}]_vars

(***************************************************************************)
(* Properties of the token range and the example scenario.                 *)
(***************************************************************************)
\* usage.total_tokens of the stored document of a row.
TokensOf(row) == Prop(Prop(JsonParse(row.body), "usage"), "total_tokens")

\* C9: a list of the responses store with min_tokens=lo and max_tokens=hi
\* returns exactly the stored documents whose usage.total_tokens t has
\* lo <= t <= hi, those with t = lo and t = hi (and lo = 0) included.
C9_RangeInclusive ==
    (/\ req.op = "list"
     /\ IsResponses
     /\ resp.status = 200
     /\ DOMAIN req.query = {"min_tokens", "max_tokens"}) =>
        LET lo == parseInt(req.query["min_tokens"]).n
            hi == parseInt(req.query["max_tokens"]).n
        IN  Range(RecordIds(resp.records)) =
                {items.rows[i].id : i \in {j \in 1..Len(items.rows) :
                    /\ TokensOf(items.rows[j]).t = "number"
                    /\ lo <= TokensOf(items.rows[j]).n
                    /\ TokensOf(items.rows[j]).n <= hi}}

\* The index list of the example scenario, as a seed leaves it.
ScenarioIndexes == SortPaths(<<"status", "output.role">>)

\* The cell of the scenario after its single ingest, as the claim words it:
\* the one document submitted is the scenario's.
ScenarioSubmitted ==
    /\ cfg.indexes = ScenarioIndexes
    /\ Len(items.rows) = 1
    /\ items.rows[1].src = DocScenario

\* The same in a generic store whose schema declares the document's fields,
\* so that the stored body is the scenario's document.
ScenarioStored ==
    /\ ~IsResponses
    /\ cfg.indexes = ScenarioIndexes
    /\ Len(items.rows) = 1
    /\ JsonParse(items.rows[1].body) = DocScenario

IdentifiersOf(record) ==
    {record.id} \cup (IF record.response_id.t = "string"
                      THEN {record.response_id.s} ELSE {})

\* C11: in a list response next_after is the identifier of the last record
\* when exactly limit records are returned, and null when fewer than limit
\* records are returned.
C11_NextAfter ==
    (req.op = "list" /\ resp.status = 200) =>
        LET n == LimitOf(req.query).n
            k == Len(resp.records)
        IN  /\ (k = n /\ k > 0) => resp.next_after \in IdentifiersOf(resp.records[k])
            /\ k < n => resp.next_after = NULL

\* The key the array rows of a document row carry.
RowKey(row) == IF IsResponses THEN row.response_id.s ELSE row.id

\* C12: in every state reached by seeds, ingests and failed ingests, the
\* parent identifier of every array row is the key of a row of the
\* document table.
C12_ReferentialIntegrity ==
    \A o \in output_index.rows :
        \E i \in 1..Len(items.rows) : o.parent = RowKey(items.rows[i])

\* C12 happens: array rows are stored, and the last ingest failed after it
\* had inserted its document row.
C12_Witness ==
    /\ req.op = "post"
    /\ resp.status = 500
    /\ output_index.rows # {}
    /\ \E i \in 1..Len(items.rows) : items.rows[i].id = req.id

\* The external id of a document: its id field.
ExternalId(doc) == Prop(doc, "id")

\* C13: no ingest changes or removes a stored document row or array row,
\* and the ingest of a valid document whose external id is that of a stored
\* document succeeds and adds one document row with a fresh identifier.
C13_RestoreAdditive ==
    [][req'.op = "post" =>
          /\ Len(items'.rows) >= Len(items.rows)
          /\ SubSeq(items'.rows, 1, Len(items.rows)) = items.rows
          /\ output_index.rows \subseteq output_index'.rows
          /\ (/\ ReachesValidator(req'.doc)
              /\ Validated(req'.doc).success
              /\ ExternalId(req'.doc).t = "string"
              /\ \E i \in 1..Len(items.rows) :
                    ExternalId(items.rows[i].src) = ExternalId(req'.doc)) =>
                /\ resp'.status = 200
                /\ Len(items'.rows) = Len(items.rows) + 1
                /\ items'.rows[Len(items'.rows)].id = req'.id
                /\ req'.id \notin UsedIds]_vars

(***************************************************************************)
(* Properties of the query parameters, of the identifiers and of the       *)
(* lookup.                                                                 *)
(***************************************************************************)
\* The parameters a list request of the cell reads: the page, the output
\* filters, the built-in filters of the responses store and one k_ name for
\* each configured index column.
Vocabulary ==
    {"limit", "after"}
    \cup OutputFilters
    \cup (IF IsResponses THEN {"status", "model", "min_tokens", "max_tokens"} ELSE {})
    \cup {colName(cfg.indexes[i]) : i \in 1..Len(cfg.indexes)}

\* The query without the parameters ks.
Without(q, ks) == [name \in DOMAIN q \ ks |-> q[name]]

\* C14: a list request with a parameter outside the vocabulary, a k_ name
\* of no configured column included, succeeds and returns the records of
\* the same request without that parameter.
C14_UnknownIgnored ==
    (req.op = "list" /\ items.exists /\ output_index.exists) =>
        LET unknown == DOMAIN req.query \ Vocabulary
        IN  unknown # {} =>
                /\ resp.status = 200
                /\ resp.records = handleList(Without(req.query, unknown)).records

\* C15: whatever the limit parameter, a list response holds at most 200
\* records: the page its LIMIT cuts from a result of 201 rows has at most
\* 200 of them.
C15_PageClamped ==
    (req.op = "list" /\ resp.status = 200) =>
        /\ Len(resp.records) <= LimitCap
        /\ Len(Limit([i \in 1..(LimitCap + 1) |-> i], LimitOf(req.query).n)) <= LimitCap

\* C16: identifiers grow with insertion: a document row inserted later has
\* a greater id than every row inserted before it, and the unfiltered list
\* returns the documents in insertion order.
C16_MonotonicIds ==
    /\ \A i, j \in 1..Len(items.rows) :
          i < j => IdLess(items.rows[i].id, items.rows[j].id)
    /\ (req.op = "list" /\ req.query = <<>> /\ resp.status = 200) =>
          RecordIds(resp.records) = [i \in 1..Len(items.rows) |-> items.rows[i].id]

\* C18: a lookup returns the stored record when a record has the requested
\* identifier and answers 404 when none has; it fails in no other way.
C18_LookupOr404 ==
    (req.op = "get" /\ items.exists) =>
        LET found == {i \in 1..Len(items.rows) : CursorKey(items.rows[i]) = req.id}
        IN  IF found # {}
            THEN /\ resp.status = 200
                 /\ \E i \in found : /\ resp.id = items.rows[i].id
                                     /\ resp.body = JsonParse(items.rows[i].body)
            ELSE resp.status = 404

\* C17: an ingest whose body is not a JSON object (unparseable text, null,
\* a scalar) returns an error and leaves both tables as they were, under
\* every configured schema.
C17_MalformedRejected ==
    [][(req'.op = "post" /\ req'.doc.t # "object") =>
          /\ resp'.status >= 400
          /\ items' = items
          /\ output_index' = output_index]_vars

(***************************************************************************)
(* The router of the pods (src/index.ts, the version with env.PASEO_POD)   *)
(* and the RPC methods of PASEO_POD it calls.                              *)
(***************************************************************************)
\* The answer of the later router to GET /pods/{podName}.
statusOk == "ok"

\* PASEO_POD.status()
status == "PaseoPod is alive."

\* PASEO_POD.get(key): the stored value, undefined for an absent key.
get(storage, key) == IF key \in DOMAIN storage THEN storage[key] ELSE ""

\* PASEO_POD.set(key, value)
set(storage, key, value) ==
    [k \in DOMAIN storage \cup {key} |-> IF k = key THEN value ELSE storage[k]]

\* POST /pods: a fresh name, the pod under it called once, the name returned.
PodCreate(actorName) ==
    /\ issued' = issued \cup {actorName}
    /\ wreq' = [NoWReq EXCEPT !.worker = "PASEO_POD", !.route = "POST /pods"]
    /\ wresp' = [NoWResp EXCEPT !.status = 200, !.name = actorName]
    /\ UNCHANGED <<ACTOR_DO, PASEO_POD>>
    /\ UNCHANGED cellVars

\* /pods with another method
PodMethodNotAllowed ==
    /\ wreq' = [NoWReq EXCEPT !.worker = "PASEO_POD", !.route = "GET /pods"]
    /\ wresp' = [NoWResp EXCEPT !.status = 405, !.text = "Method Not Allowed"]
    /\ UNCHANGED <<ACTOR_DO, PASEO_POD, issued>>
    /\ UNCHANGED cellVars

\* /pods/{name}
PodStatus(actorName) ==
    /\ wreq' = [NoWReq EXCEPT !.worker = "PASEO_POD", !.route = "GET /pods/{name}",
                              !.podName = actorName]
    /\ wresp' = [NoWResp EXCEPT !.status = 200, !.text = status]
    /\ UNCHANGED <<ACTOR_DO, PASEO_POD, issued>>
    /\ UNCHANGED cellVars

\* /pods/{name}/set?key=..&value=..
PodSet(actorName, key, value) ==
    /\ PASEO_POD' = [PASEO_POD EXCEPT ![actorName] = set(@, key, value)]
    /\ wreq' = [NoWReq EXCEPT !.worker = "PASEO_POD", !.route = "/pods/{name}/set",
                              !.podName = actorName, !.key = key, !.value = value]
    /\ wresp' = [NoWResp EXCEPT !.status = 200, !.text = "ok", !.value = value]
    /\ UNCHANGED <<ACTOR_DO, issued>>
    /\ UNCHANGED cellVars

\* /pods/{name}/get?key=..
PodGet(actorName, key) ==
    /\ wreq' = [NoWReq EXCEPT !.worker = "PASEO_POD", !.route = "/pods/{name}/get",
                              !.podName = actorName, !.key = key]
    /\ wresp' = [NoWResp EXCEPT !.status = 200,
                                !.value = get(PASEO_POD[actorName], key)]
    /\ UNCHANGED <<ACTOR_DO, PASEO_POD, issued>>
    /\ UNCHANGED cellVars

\* /pods/{name}/get and /pods/{name}/set without their parameters
PodMissingKey(actorName, sub) ==
    /\ wreq' = [NoWReq EXCEPT !.worker = "PASEO_POD", !.route = sub,
                              !.podName = actorName]
    /\ wresp' = [NoWResp EXCEPT !.status = 400,
                                !.text = IF sub = "/pods/{name}/get"
                                         THEN "Missing key"
                                         ELSE "Missing key or value"]
    /\ UNCHANGED <<ACTOR_DO, PASEO_POD, issued>>
    /\ UNCHANGED cellVars

NextPods ==
    \/ \E actorName \in PodUuids : PodCreate(actorName)
    \/ PodMethodNotAllowed
    \/ \E actorName \in PodUuids \cup PodNames : PodStatus(actorName)
    \/ \E actorName \in PodUuids \cup PodNames, key \in PodKeys, value \in PodValues :
          PodSet(actorName, key, value)
    \/ \E actorName \in PodUuids \cup PodNames, key \in PodKeys :
          PodGet(actorName, key)
    \/ \E actorName \in PodUuids \cup PodNames,
          sub \in {"/pods/{name}/get", "/pods/{name}/set"} :
          PodMissingKey(actorName, sub)

SpecPods == Init /\ [][NextPods]_vars

(***************************************************************************)
(* Properties of the routing.                                              *)
(***************************************************************************)
CellOf(pair) == ACTOR_DO[actorKey(pair[1], pair[2])]

\* C19: a request addressed to one (podName, actorId) pair leaves the
\* configuration and the records of every other pair as they were, and the
\* records it answers with are those of its own pair alone: distinct pairs
\* have distinct cells.
C19_CellIsolation ==
    [][wreq'.actorId # "" =>
          \A pair \in Pairs :
             pair # <<wreq'.podName, wreq'.actorId>> => CellOf(pair)' = CellOf(pair)]_vars

C21_RunToCompletion ==
    [][awaiting.op = "post" =>
          /\ awaiting'.op = "none"
          /\ awaiting.cfg = cfg]_vars

\* C22: a reconfiguration that cannot complete leaves the cell in its
\* last-known-good state (baseline, tables and documents as before), and no
\* request finds the baseline updated without the tables recreated.
C22_RebuildAtomic ==
    [][/\ (req'.op = "seed" /\ resp'.status # 200) =>
             /\ storedIndexes' = storedIndexes
             /\ items' = items
             /\ output_index' = output_index
       /\ items'.exists /\ output_index'.exists]_vars

\* C23: a start of the instance or a seed with an index set equal to the
\* persisted baseline leaves every document row and array row unchanged.
C23_SameIndexesKeepData ==
    [][(req'.op \in {"seed", "init"} /\ Range(cfg'.indexes) = Range(storedIndexes)) =>
          /\ items' = items
          /\ output_index' = output_index]_vars

\* The stored rows that pass every filter of q but the cursor and whose
\* internal identifier is strictly greater than the cursor.
AfterEligible(q) ==
    {i \in Matching(Without(q, {"after"})) : IdLess(q["after"], items.rows[i].id)}

\* The internal identifiers of the rows of S in ascending order.
RECURSIVE AscendingIds(_)
AscendingIds(S) ==
    IF S = {} THEN <<>>
    ELSE LET m == CHOOSE i \in S :
                     \A j \in S \ {i} : IdLess(items.rows[i].id, items.rows[j].id)
         IN  <<items.rows[m].id>> \o AscendingIds(S \ {m})

\* C24: a list with after=X returns, in ascending identifier order, the
\* first `limit` of exactly the stored records whose internal identifier is
\* strictly greater than X and that pass every other filter.
C24_CursorStrictlyGreater ==
    (req.op = "list" /\ Given(Param(req.query, "after")) /\ resp.status = 200) =>
        RecordIds(resp.records) =
            Limit(AscendingIds(AfterEligible(req.query)), LimitOf(req.query).n)

\* The array-scoped filters of the query vocabulary.
ArrayScoped == {"output_type", "output_role", "output_content", "output_status"}

\* C25: without an array-scoped filter the list is the page of the document
\* rows that pass the other filters, documents without elements included;
\* with one, the array rows are consulted: every returned document has an
\* array row.
C25_JoinPolicy ==
    (req.op = "list" /\ resp.status = 200) =>
        LET q == req.query
            scoped == ArrayScoped \cap DOMAIN q
            alone  == Limit(Ordered({i \in 1..Len(items.rows) :
                                        ItemRowMatches(q, items.rows[i])}),
                            LimitOf(q).n)
        IN  /\ scoped = {} =>
                  RecordIds(resp.records) =
                      [i \in 1..Len(alone) |-> items.rows[alone[i]].id]
            /\ scoped # {} =>
                  \A n \in 1..Len(resp.records) :
                     \E o \in output_index.rows :
                        o.parent \in IdentifiersOf(resp.records[n])

\* The scalar index path of a column, and the stored documents whose value
\* at that path is present, not null and, as a string, equal to v.
ScalarPathOf(name) ==
    CHOOSE i \in 1..Len(cfg.indexes) :
        colName(cfg.indexes[i]) = name /\ ~StartsWith(cfg.indexes[i], "output.")

HasScalarPath(name) ==
    \E i \in 1..Len(cfg.indexes) :
        colName(cfg.indexes[i]) = name /\ ~StartsWith(cfg.indexes[i], "output.")

StoredWith(name, v) ==
    {i \in 1..Len(items.rows) :
        LET value == getPath(JsonParse(items.rows[i].body), cfg.indexes[ScalarPathOf(name)])
        IN  ~IsNullish(value) /\ JsString(value) = v}

\* C26: a list filtered by k_<column>=v alone, the column being that of a
\* configured scalar path p, returns exactly the stored documents whose
\* value at p is present, not null and equal to v as a string.
C26_ScalarIndexExact ==
    (/\ req.op = "list" /\ resp.status = 200
     /\ DOMAIN req.query = {"k_status"}
     /\ HasScalarPath("k_status")) =>
        {resp.records[n].id : n \in 1..Len(resp.records)} =
            {items.rows[i].id : i \in StoredWith("k_status", req.query["k_status"])}

C26_Witness ==
    /\ req.op = "list" /\ resp.status = 200
    /\ req.query = [k_status |-> "1"]
    /\ HasScalarPath("k_status")
    /\ Len(resp.records) = 1
    /\ Len(items.rows) = 2

\* s occurs in text as a literal substring, letter case included.
Contains(text, sub) ==
    \E k \in 0..(Len(text) - Len(sub)) : SubSeq(text, k + 1, k + Len(sub)) = sub

\* C27: a list filtered by output_content=s alone returns exactly the
\* documents with an array row whose content excerpt contains s as a
\* literal substring of identical letter case; no character of s is a
\* wildcard.
C27_ContentSubstring ==
    (/\ req.op = "list" /\ resp.status = 200
     /\ DOMAIN req.query = {"output_content"}) =>
        {resp.records[n].id : n \in 1..Len(resp.records)} =
            {items.rows[i].id : i \in
                {i \in 1..Len(items.rows) :
                    \E o \in output_index.rows :
                        /\ o.parent = RowKey(items.rows[i])
                        /\ o.output_content.t = "string"
                        /\ Contains(o.output_content.s, req.query["output_content"])}}

(***************************************************************************)
(* Properties of the index values, of the excerpt and of the column names. *)
(***************************************************************************)
\* C28: for an index path rooted at the repeating field (output.<subPath>)
\* the document row carries no value: its column is NULL in every row.
C28_RepeatingNotOnDocument ==
    \A i \in 1..Len(items.rows), j \in 1..Len(cfg.indexes) :
        (StartsWith(cfg.indexes[j], "output.")
            /\ colName(cfg.indexes[j]) \in DOMAIN items.rows[i].k) =>
        items.rows[i].k[colName(cfg.indexes[j])] = Null

\* Math.ceil(L / 4): the least k with 4 * k >= L.
CeilQuarter(L) == CHOOSE k \in 0..L : 4 * k >= L /\ 4 * (k - 1) < L

\* C29: in the responses store every ingested element with a non-empty text
\* of length L has an array row whose excerpt is the first min(L, M)
\* characters of the text, M the maximum excerpt length, and whose size
\* estimate is ceil(L / 4), taken from the whole text.
C29_ExcerptAndEstimate ==
    [][(req'.op = "post" /\ resp'.status = 200 /\ IsResponses) =>
          LET validatedDoc == Validated(req'.doc).data
              outputs == OutputsOf(validatedDoc)
          IN  \A n \in 1..Len(outputs) :
                 LET text == OutputContent(outputs[n])
                 IN  (text.t = "string" /\ Len(text.s) > 0) =>
                     LET L == Len(text.s)
                         m == IF L < maxContentLength THEN L ELSE maxContentLength
                     IN  \E o \in output_index'.rows :
                            /\ o.parent = ParentKey(req'.id, validatedDoc)
                            /\ o.output_index = n - 1
                            /\ o.output_content = Str(SubSeq(text.s, 1, m))
                            /\ Len(o.output_content.s) <= maxContentLength
                            /\ o.content_tokens = Num(CeilQuarter(L))]_vars

C29_Witness ==
    /\ req.op = "post" /\ resp.status = 200 /\ IsResponses
    /\ maxContentLength = 4
    /\ \E o \in output_index.rows :
          /\ o.parent = ParentKey(req.id, Validated(req.doc).data)
          /\ o.output_content.t = "string"
          /\ Len(o.output_content.s) = maxContentLength
          /\ o.content_tokens = Num(251)

\* The normalized form of a path: an alphanumeric character stays, a
\* character that starts a run of others becomes "_", the rest of the run
\* disappears.
RECURSIVE NormalizedUpTo(_, _)
NormalizedUpTo(p, n) ==
    IF n = 0 THEN ""
    ELSE NormalizedUpTo(p, n - 1) \o
         (IF Chr(p, n) \in AlnumChars THEN Chr(p, n)
          ELSE IF n > 1 /\ Chr(p, n - 1) \notin AlnumChars THEN "" ELSE "_")

First48(s) == SubSeq(s, 1, IF Len(s) < 48 THEN Len(s) ELSE 48)

Normalized48(p) == First48(NormalizedUpTo(p, Len(p)))

\* C30: colName is a function of the path alone, defined on every path: the
\* columns of the document table are the names of the configured paths,
\* whatever the cell held before, and two configured paths have the same
\* column exactly when their normalized forms agree on the first 48
\* characters.
C30_MapPathAliases ==
    /\ \A i, j \in 1..Len(cfg.indexes) :
          (colName(cfg.indexes[i]) = colName(cfg.indexes[j]))
              <=> (Normalized48(cfg.indexes[i]) = Normalized48(cfg.indexes[j]))
    /\ (items.exists /\ storedIndexes = cfg.indexes) =>
          items.cols = {"k_" \o Normalized48(p) : p \in Range(cfg.indexes)}

\* Two distinct paths of 49 characters that share the first 48 are seeded
\* together and have one column name.
C30_Witness ==
    /\ req.op = "seed"
    /\ \E i, j \in 1..Len(cfg.indexes) :
          /\ cfg.indexes[i] # cfg.indexes[j]
          /\ Len(cfg.indexes[i]) > ColNameMax
          /\ Len(NormalizedUpTo(cfg.indexes[i], Len(cfg.indexes[i]))) > ColNameMax
          /\ colName(cfg.indexes[i]) = colName(cfg.indexes[j])

\* The values at subPath of the elements, in element order, of those
\* elements that have one.
RECURSIVE ValuesInOrder(_, _)
ValuesInOrder(elems, subPath) ==
    IF elems = <<>> THEN <<>>
    ELSE LET value == getPath(Head(elems), subPath)
         IN  (IF value \in {UNDEF, Null} THEN <<>> ELSE <<JsString(value)>>)
                 \o ValuesInOrder(Tail(elems), subPath)

OutputPaths == {p \in Range(cfg.indexes) : StartsWith(p, "output.")}

\* C31: for a configured path output.<subPath> the extraction from the
\* validated document of an ingest is, in element order, the string of the
\* value at <subPath> of each element that has a non-null one, and is empty
\* when output is absent or no sequence; the document row holds these
\* values.
C31_ExtractionInOrder ==
    [][(req'.op = "post" /\ Len(items'.rows) = Len(items.rows) + 1) =>
          LET validatedDoc == Validated(req'.doc).data
              output == Prop(validatedDoc, "output")
          IN  \A p \in OutputPaths :
                 LET expected == IF output.t = "array"
                                 THEN ValuesInOrder(output.a, SubSeq(p, 8, Len(p)))
                                 ELSE <<>>
                 IN  /\ extractOutputValues(validatedDoc, p) = expected
                     /\ items'.rows[Len(items'.rows)].k[colName(p)] =
                            (IF expected = <<>> THEN Null
                             ELSE Str(Join(expected, "|")))]_vars

\* The document with six elements is stored with the values of three.
C31_Witness ==
    /\ req.op = "post" /\ req.doc = DocMixed /\ resp.status = 200
    /\ OutputPaths # {}
    /\ extractOutputValues(Validated(req.doc).data, "output.role")
           = <<"user", "1", "assistant">>

\* C32: every stored document satisfies the validator of the current
\* configuration, also after a seed that changes the schema and leaves the
\* index list as it is.
C32_StoredConform ==
    \A i \in 1..Len(items.rows) :
        safeParse(zodSchemaOf(cfg.actorType, cfg.schema),
                  JsonParse(items.rows[i].body)).success

\* C33: a seed whose actor type has no registered handler is rejected and
\* leaves the configuration, the handler and the stored records as they
\* were, and the cell always has a handler to serve requests with, after a
\* restart too.
C33_UnknownTypeRejected ==
    [][/\ (req'.op = "seed" /\ MergeCfg(cfg, req'.seed).actorType \notin ActorTypes) =>
            /\ resp'.status # 200
            /\ cfg' = cfg /\ handler' = handler
            /\ storedIndexes' = storedIndexes
            /\ items' = items /\ output_index' = output_index
       /\ handler' # NoHandler]_vars

\* The index paths of the configuration an ingest runs with: the one it was
\* handed when it entered the handler.
IngestPaths == IF awaiting.op = "post" THEN awaiting.cfg.indexes ELSE cfg.indexes

\* C34: after an initialization or a seed that completes without error the
\* index baseline is the sorted index list of the configuration, the
\* handler is the one of the configuration's actor type and the document
\* table has the column of every configured path; an ingest into an
\* existing table finds the column of every path it writes.
C34_SchemaMatchesConfig ==
    [][/\ (req'.op \in {"seed", "init"} /\ resp'.status = 200) =>
            /\ storedIndexes' = SortPaths(cfg'.indexes)
            /\ handler' = cfg'.actorType
            /\ items'.exists
            /\ items'.cols = {colName(p) : p \in Range(cfg'.indexes)}
       /\ (req'.op = "post" /\ resp'.status # 400 /\ items.exists) =>
            {colName(p) : p \in Range(IngestPaths)} \subseteq items.cols]_vars

\* C35: a list, a get by id and an array-detail request, and the init that
\* a request to a restarted instance runs first, leave the document table,
\* the array-index table, the index baseline and the configuration as they
\* were.
C35_ReadsChangeNothing ==
    [][req'.op \in {"list", "get", "outputs", "init"} =>
          /\ items' = items
          /\ output_index' = output_index
          /\ storedIndexes' = storedIndexes
          /\ cfg' = cfg]_vars

\* An array-detail request answered from a cell that holds documents under
\* a configured index list.
C35_Witness ==
    /\ req.op = "outputs" /\ resp.status = 200
    /\ Len(items.rows) > 0 /\ output_index.rows # {}
    /\ cfg.indexes # <<>>

\* One element of the stored document carries every tag the request
\* names.
OneElementHasAll(row, q) ==
    \E e \in Range(OutputsOf(JsonParse(row.body))) :
        \A f \in TagFilters \cap DOMAIN q : Prop(e, TagField(f)) = Str(q[f])

\* C36: a list with two or more filters on the elements returns exactly the
\* documents that have one element satisfying all of them; a document whose
\* filters are met by different elements only is not returned.
C36_SameElement ==
    (/\ req.op = "list" /\ resp.status = 200
     /\ Cardinality(ArrayScoped \cap DOMAIN req.query) >= 2) =>
        Range(RecordIds(resp.records)) =
            {items.rows[i].id : i \in {j \in 1..Len(items.rows) :
                                          OneElementHasAll(items.rows[j], req.query)}}

\* The seed of the creation left a cell with its table: the baseline is the
\* list of the request and no two of its paths share a column.
SeedSucceeded ==
    LET cell == ACTOR_DO[actorKey(wreq.podName, wreq.actorId)]
    IN  /\ cell.indexes = wreq.indexes
        /\ Cardinality({colName(p) : p \in Range(cell.indexes)}) = Len(cell.indexes)

\* C37: POST /pods/{podName}/actors answers with success and an actorId
\* only if the seed of the new cell succeeded, and with an error when the
\* seed failed.
C37_SeedFailureSurfaced ==
    wreq.route = "POST /pods/{podName}/actors" =>
        /\ (wresp.status = 200 /\ wresp.actorId # "") => SeedSucceeded
        /\ ~SeedSucceeded => (wresp.status >= 400 /\ wresp.actorId = "")

\* A creation whose configuration names one column twice was answered with
\* an error.
C37_Witness ==
    /\ wreq.route = "POST /pods/{podName}/actors"
    /\ wreq.indexes = <<"status", "status">>
    /\ ~SeedSucceeded
    /\ wresp.status = 500

====
